---- MODULE Spec2Model ----
(***************************************************************************)
(* llm-mux: the admission engine (src/rate_limiter.rs) and the request     *)
(* handler (src/main.rs) as a state machine.                               *)
(*                                                                         *)
(* Time is counted in whole seconds of the monotonic clock (Instant).      *)
(* A task is one caller: a thread calling RateLimiter::try_acquire         *)
(* directly (LimSpec, as the unit tests do) or one HTTP request running    *)
(* generate (Spec).  Every access to shared state (the atomic counter,     *)
(* a window's mutex-protected queue) is one step of its own, so tasks      *)
(* interleave exactly where threads can.                                   *)
(***************************************************************************)
EXTENDS Integers, Sequences, FiniteSets, TLC

\* ------------------------------------------------------------- bounds
\* threads calling the limiter directly (LimSpec)
NTasks == 2
\* requests in flight in the server (Spec)
NRequests == 3
\* the run spans 0..Periods RPM windows, and 0..Slack seconds into each
Periods == 1
Slack == 1
MaxConcurrent == 2
MaxRps == 2
MaxRpm == 2
\* the timeouts a caller hands to run: none, or 1..MaxTimeout seconds
MaxTimeout == 2
\* the prompt written to the child's stdin is 0..MaxPrompt blocks long, and
\* the pipe to the child holds PipeCapacity blocks
MaxPrompt == 2
PipeCapacity == 1
\* how far past the default deadline the clock of a run is followed
Overrun == 1
\* the longest content of a JSON string in a child's output, in tokens
MaxString == 1
\* how deep the JSON objects of a child's output nest
MaxDepth == 1
\* callers that take their turns at the limiter one after the other (SeqSpec)
NCallers == 3

\* ---------------------------------------------------------- constants
\* Option::None of an Option<u32> limit
None == -1
\* Duration::from_secs(1), the RPS window
RpsWindow == 1
\* Duration::from_secs(60), the RPM window
RpmWindow == 60
\* u32::MAX, the value AtomicU32::fetch_sub(1) leaves when it wraps at 0
\* (capped to the largest integer the model checker represents)
U32Max == 2147483647
\* const DEFAULT_TIMEOUT_SECS: u64 = 120
DEFAULT_TIMEOUT_SECS == 120

Tasks == 1..NTasks
RequestIds == 1..NRequests

\* the instants at which the clock is read
Instants == { p * RpmWindow + s : p \in 0..Periods, s \in 0..Slack }

\* ModelSettings { rps, rpm, concurrent, timeout_secs }
ModelSettings(rps, rpm, concurrent, timeout_secs) ==
    [rps |-> rps, rpm |-> rpm, concurrent |-> concurrent,
     timeout_secs |-> timeout_secs]

\* the limits a unit test registers for its one key
LimiterSettings ==
    { ModelSettings(r, m, c, None) :
        r \in {None} \cup 0..MaxRps,
        m \in {None} \cup 0..MaxRpm,
        c \in {None} \cup 0..MaxConcurrent }

\* a request schema (serde_json::Value) as far as the validator reads it:
\* the JSON kind of the root, of "type" and of "properties" ("absent" when
\* the member is missing), and whether jsonschema compiles it
JsonSchema(root, type, properties, compiles) ==
    [root |-> root, type |-> type, properties |-> properties,
     compiles |-> compiles]

\* {"type": "object", "properties": {"message": {"type": "string"}}}
ValidSchema == JsonSchema("object", "object", "object", TRUE)
\* {"type": "array", "items": {"type": "string"}}
ArraySchema == JsonSchema("object", "array", "absent", TRUE)
\* the schemas that fail one check of the validator each: a root that is
\* no object, no "type", no "properties", "properties" that is an array,
\* and a property the JSON Schema compiler refuses
RefusedSchemas ==
    { JsonSchema("string", "absent", "absent", FALSE),
      JsonSchema("object", "absent", "object", TRUE),
      JsonSchema("object", "object", "absent", TRUE),
      JsonSchema("object", "object", "array", FALSE),
      JsonSchema("object", "object", "object", FALSE) }

\* GenerateRequest { provider, model: Option<String>, schema }; an Option
\* is <<>> (None) or <<x>> (Some(x))
GenerateRequest(provider, model, schema) ==
    [provider |-> provider, model |-> model, schema |-> schema]

NoRequest == GenerateRequest("", <<>>, JsonSchema("null", "absent", "absent", FALSE))

\* the requests clients send: those of the handler's tests, one with
\* neither a known provider nor a model, two that fail several checks, and
\* one per refused schema for a model that may be configured
GenerateRequests ==
    { GenerateRequest("unknown", <<"test">>, ValidSchema),
      GenerateRequest("unknown", <<>>, ValidSchema),
      GenerateRequest("claude", <<"unknown-model">>, ValidSchema),
      GenerateRequest("codex", <<>>, ValidSchema),
      GenerateRequest("claude", <<>>, ValidSchema),
      GenerateRequest("claude", <<"sonnet">>, ValidSchema),
      GenerateRequest("claude", <<>>, ArraySchema),
      GenerateRequest("unknown", <<"test">>, ArraySchema),
      GenerateRequest("codex", <<"unknown-model">>, ValidSchema) }
      \cup { GenerateRequest("claude", <<"sonnet">>, sc) : sc \in RefusedSchemas }

\* what provider.execute can end with, and whether its output conforms
ExecuteResults == {"ok", "ProviderExecution", "Timeout", "OutputParse"}

TestKey == <<"test", "model">>
UnknownKey == <<"unknown", "model">>
CallKeys == {TestKey, UnknownKey}

VARIABLES
    limiters,    \* RateLimiter.limiters: key -> settings of its ModelLimiter
    current,     \* key -> ConcurrentLimiter.current
    timestamps,  \* key -> [rps, rpm]: SlidingWindow.timestamps, front first
    clock,       \* Instant::now()
    pc,          \* task -> position in the code
    key,         \* task -> key of its try_acquire call
    loaded,      \* task -> `current` as loaded in the CAS loop
    now,         \* task -> `now` taken by SlidingWindow::try_acquire
    res,         \* task -> result of try_acquire: "none", "ok", "denied"
    guard,       \* task -> "none", "empty" (limiter: None), "held"
    slot,        \* task -> increments minus decrements it did on current
    touched,     \* task -> windows whose queue this call changed
    cause,       \* task -> sub-limit that denied this call
    acquired,    \* key -> [rps, rpm]: clock times of the window acquisitions
                 \*        that succeeded within the last window length
    model_settings,     \* AppState.model_settings: key -> ModelSettings
    provider_settings,  \* AppState.provider_settings: name -> ProviderSettings
    req,         \* task -> the GenerateRequest it handles
    validated,   \* task -> validate_structured_schema returned Ok
    invoked,     \* task -> number of calls of provider.execute
    timeout_secs,\* task -> the timeout handed to provider.execute
    last,        \* the request answered last and how: what generate returned
                 \* ("ok": 200, an AppError, "cancelled": the future dropped)
    xpc,         \* CliExecutor::run: position in the code
    xargs,       \* run's arguments: program, stdin_data (its length), timeout_secs
    child,       \* the child process: state, whether it reads its stdin,
                 \* its exit status
    pipe,        \* the child's stdin: blocks run has still to write, blocks
                 \* buffered in the pipe
    xclock,      \* seconds since run was called, and the deadline of the wait
    xres,        \* what run returned, and the event that ended it
    registered,  \* the last RateLimiter::register call: its key, its
                 \* settings, what insert returned (the entry it replaced),
                 \* and the parity of the number of calls
    lin,         \* whether calls race on an entry, and the entry as it was
                 \* when they started
    ad           \* a call of Provider::execute: the adapter, what the
                 \* executor returned, the text parsed, the result

limvars == <<limiters, current, timestamps, clock, pc, key, loaded, now,
             res, guard, slot, touched, cause, acquired>>

hvars == <<model_settings, provider_settings, req, validated, invoked,
           timeout_secs, last>>

xvars == <<xpc, xargs, child, pipe, xclock, xres>>

vars == <<limiters, current, timestamps, clock, pc, key, loaded, now,
          res, guard, slot, touched, cause, acquired,
          model_settings, provider_settings, req, validated, invoked,
          timeout_secs, last, xpc, xargs, child, pipe, xclock, xres,
          registered, lin, ad>>

avars == <<lin, ad>>

\* the tasks of the run
Procs == DOMAIN pc

Window(w) == IF w = "rps" THEN RpsWindow ELSE RpmWindow

\* ------------------------------------------------- SlidingWindow (pure)
RECURSIVE Evict(_, _)
\* while timestamps.front().is_some_and(|&t| t < cutoff) { pop_front() }
Evict(q, cutoff) ==
    IF q # <<>> /\ Head(q) < cutoff THEN Evict(Tail(q), cutoff) ELSE q

\* (mutant) the length test lets one more in
HasRoom_off_by_one(q, max_requests) == Len(q) <= max_requests

\* timestamps.len() < self.max_requests
HasRoom(q, max_requests) == Len(q) < max_requests

\* the critical section of SlidingWindow::try_acquire, for a `now` taken
\* before the lock
SlidingWindow_locked(q, window, max_requests, t_now) ==
    LET kept == Evict(q, t_now - window) IN
    IF HasRoom(kept, max_requests)
    THEN [ok |-> TRUE, q |-> Append(kept, t_now)]
    ELSE [ok |-> FALSE, q |-> kept]

\* ---------------------------------------------- ConcurrentLimiter (pure)
\* (mutant) the capacity test off by one
AtCapacity_off_by_one(c, max) == c > max

\* if current >= self.max { return false; }
AtCapacity(c, max) == c >= max

\* AtomicU32::fetch_sub(1): wraps at 0
fetch_sub(c) == IF c = 0 THEN U32Max ELSE c - 1

\* ------------------------------------------------------------ registry
\* RateLimiter::register: insert replaces the entry of the key
register(reg, k, settings) ==
    [x \in DOMAIN reg \cup {k} |-> IF x = k THEN settings ELSE reg[x]]

EmptyRegistry == [x \in {} |-> None]

Registered(k) == k \in DOMAIN limiters

NoRegistration ==
    [key |-> <<"", "">>, settings |-> ModelSettings(None, None, None, None),
     old |-> <<>>, parity |-> 0]

\* (mutant) an entry that exists is kept: entry(key).or_insert(..)
RateLimiter_register_or_insert(k, settings) ==
    /\ \A t \in Procs : pc[t] = "idle"
    /\ IF k \in DOMAIN limiters
       THEN UNCHANGED <<limiters, current, timestamps, acquired>>
       ELSE /\ limiters' = register(limiters, k, settings)
            /\ current' = register(current, k, 0)
            /\ timestamps' = register(timestamps, k, [rps |-> <<>>, rpm |-> <<>>])
            /\ acquired' = register(acquired, k, [rps |-> <<>>, rpm |-> <<>>])
    /\ registered' = [key |-> k, settings |-> settings,
                      old |-> IF k \in DOMAIN limiters THEN <<limiters[k]>> ELSE <<>>,
                      parity |-> 1 - registered.parity]
    /\ UNCHANGED <<clock, pc, key, loaded, now, res, guard, slot, touched, cause>>

\* RateLimiter::register between calls: insert(key, Arc::new(ModelLimiter::
\* new(&config))) puts a fresh limiter (current 0, empty queues) in the
\* place of the entry of the key
RateLimiter_register(k, settings) ==
    /\ \A t \in Procs : pc[t] = "idle"
    /\ limiters' = register(limiters, k, settings)
    /\ current' = register(current, k, 0)
    /\ timestamps' = register(timestamps, k, [rps |-> <<>>, rpm |-> <<>>])
    /\ acquired' = register(acquired, k, [rps |-> <<>>, rpm |-> <<>>])
    /\ registered' = [key |-> k, settings |-> settings,
                      old |-> IF k \in DOMAIN limiters THEN <<limiters[k]>> ELSE <<>>,
                      parity |-> 1 - registered.parity]
    /\ UNCHANGED <<clock, pc, key, loaded, now, res, guard, slot, touched, cause>>

\* recent acquisitions: those of the last `window` seconds
RECURSIVE Recent(_, _)
Recent(log, from) ==
    IF log # <<>> /\ Head(log) < from THEN Recent(Tail(log), from) ELSE log

\* --------------------------------------------- positions after a stage
\* try_acquire_rate: rps first, then rpm; "ta_ok" when both are passed
AfterRps(k) == IF limiters[k].rpm # None THEN "rpm_now" ELSE "ta_ok"
AfterConcurrent(k) == IF limiters[k].rps # None THEN "rps_now" ELSE AfterRps(k)
\* try_acquire_concurrent: None => true
AfterLookup(k) ==
    IF limiters[k].concurrent # None THEN "conc_load" ELSE AfterConcurrent(k)

\* a task moves to position np; at "ta_ok" try_acquire returns
\* Ok(ConcurrentGuard { limiter: Some(limiter) })
Goto(t, np) ==
    /\ pc' = [pc EXCEPT ![t] = IF np = "ta_ok" THEN "ta_ret" ELSE np]
    /\ res' = [res EXCEPT ![t] = IF np = "ta_ok" THEN "ok" ELSE @]
    /\ guard' = [guard EXCEPT ![t] = IF np = "ta_ok" THEN "held" ELSE @]

\* (mutant) a key with no entry is refused
try_acquire_lookup_refusing(t, k) ==
    /\ key' = [key EXCEPT ![t] = k]
    /\ slot' = [slot EXCEPT ![t] = 0]
    /\ touched' = [touched EXCEPT ![t] = {}]
    /\ cause' = [cause EXCEPT ![t] = "none"]
    /\ IF Registered(k)
       THEN Goto(t, AfterLookup(k))
       ELSE /\ pc' = [pc EXCEPT ![t] = "ta_ret"]
            /\ res' = [res EXCEPT ![t] = "denied"]
            /\ guard' = [guard EXCEPT ![t] = "none"]

\* RateLimiter::try_acquire, entry: the lookup of the key
try_acquire_lookup(t, k) ==
    /\ key' = [key EXCEPT ![t] = k]
    /\ slot' = [slot EXCEPT ![t] = 0]
    /\ touched' = [touched EXCEPT ![t] = {}]
    /\ cause' = [cause EXCEPT ![t] = "none"]
    /\ IF Registered(k)
       THEN Goto(t, AfterLookup(k))
       ELSE /\ pc' = [pc EXCEPT ![t] = "ta_ret"]
            /\ res' = [res EXCEPT ![t] = "ok"]
            /\ guard' = [guard EXCEPT ![t] = "empty"]

\* (mutant) the counter is raised before it is tested against the cap
ConcurrentLimiter_load_counting(t) ==
    /\ pc[t] = "conc_load"
    /\ IF AtCapacity(current[key[t]], limiters[key[t]].concurrent)
       THEN /\ pc' = [pc EXCEPT ![t] = "ta_ret"]
            /\ res' = [res EXCEPT ![t] = "denied"]
            /\ cause' = [cause EXCEPT ![t] = "concurrent"]
            /\ current' = [current EXCEPT ![key[t]] = @ + 1]
            /\ slot' = [slot EXCEPT ![t] = @ + 1]
            /\ UNCHANGED loaded
       ELSE /\ pc' = [pc EXCEPT ![t] = "conc_cas"]
            /\ loaded' = [loaded EXCEPT ![t] = current[key[t]]]
            /\ UNCHANGED <<res, cause, current, slot>>
    /\ UNCHANGED <<limiters, timestamps, clock, key, now, guard,
                   touched, acquired>>

\* (mutant) one counter per provider: the entry is at capacity when any
\* entry of its provider has reached this entry's cap
ConcurrentLimiter_load_provider_wide(t) ==
    /\ pc[t] = "conc_load"
    /\ IF \E k \in DOMAIN current :
             /\ k[1] = key[t][1]
             /\ AtCapacity(current[k], limiters[key[t]].concurrent)
       THEN /\ pc' = [pc EXCEPT ![t] = "ta_ret"]
            /\ res' = [res EXCEPT ![t] = "denied"]
            /\ cause' = [cause EXCEPT ![t] = "concurrent"]
            /\ UNCHANGED loaded
       ELSE /\ pc' = [pc EXCEPT ![t] = "conc_cas"]
            /\ loaded' = [loaded EXCEPT ![t] = current[key[t]]]
            /\ UNCHANGED <<res, cause>>
    /\ UNCHANGED <<limiters, current, timestamps, clock, key, now, guard,
                   slot, touched, acquired>>

\* ConcurrentLimiter::try_acquire: the load and the capacity test
ConcurrentLimiter_load(t) ==
    /\ pc[t] = "conc_load"
    /\ IF AtCapacity(current[key[t]], limiters[key[t]].concurrent)
       THEN /\ pc' = [pc EXCEPT ![t] = "ta_ret"]
            /\ res' = [res EXCEPT ![t] = "denied"]
            /\ cause' = [cause EXCEPT ![t] = "concurrent"]
            /\ UNCHANGED loaded
       ELSE /\ pc' = [pc EXCEPT ![t] = "conc_cas"]
            /\ loaded' = [loaded EXCEPT ![t] = current[key[t]]]
            /\ UNCHANGED <<res, cause>>
    /\ UNCHANGED <<limiters, current, timestamps, clock, key, now, guard,
                   slot, touched, acquired>>

\* (mutant) compare_exchange_weak: the exchange may fail with current
\* unchanged
ConcurrentLimiter_cas_weak(t) ==
    /\ pc[t] = "conc_cas"
    /\ loaded' = [loaded EXCEPT ![t] = 0]
    /\ \/ /\ current[key[t]] = loaded[t]
          /\ current' = [current EXCEPT ![key[t]] = loaded[t] + 1]
          /\ slot' = [slot EXCEPT ![t] = @ + 1]
          /\ Goto(t, AfterConcurrent(key[t]))
       \/ /\ pc' = [pc EXCEPT ![t] = "conc_load"]
          /\ UNCHANGED <<current, slot, res, guard>>
    /\ UNCHANGED <<limiters, timestamps, clock, key, now, touched, cause,
                   acquired>>

\* ConcurrentLimiter::try_acquire: compare_exchange(current, current + 1)
ConcurrentLimiter_cas(t) ==
    /\ pc[t] = "conc_cas"
    /\ loaded' = [loaded EXCEPT ![t] = 0]
    /\ IF current[key[t]] = loaded[t]
       THEN /\ current' = [current EXCEPT ![key[t]] = loaded[t] + 1]
            /\ slot' = [slot EXCEPT ![t] = @ + 1]
            /\ Goto(t, AfterConcurrent(key[t]))
       ELSE /\ pc' = [pc EXCEPT ![t] = "conc_load"]
            /\ UNCHANGED <<current, slot, res, guard>>
    /\ UNCHANGED <<limiters, timestamps, clock, key, now, touched, cause,
                   acquired>>

\* SlidingWindow::try_acquire: let now = Instant::now()
SlidingWindow_now(t, w) ==
    /\ pc[t] = (IF w = "rps" THEN "rps_now" ELSE "rpm_now")
    /\ now' = [now EXCEPT ![t] = clock]
    /\ pc' = [pc EXCEPT ![t] = IF w = "rps" THEN "rps_lock" ELSE "rpm_lock"]
    /\ UNCHANGED <<limiters, current, timestamps, clock, key, loaded, res,
                   guard, slot, touched, cause, acquired>>

\* (mutant) an RPM denial takes back the timestamp the RPS window got
SlidingWindow_lock_rewinding(t, w) ==
    /\ pc[t] = (IF w = "rps" THEN "rps_lock" ELSE "rpm_lock")
    /\ LET k == key[t]
           r == SlidingWindow_locked(timestamps[k][w], Window(w),
                                     limiters[k][w], now[t])
           ts == [timestamps EXCEPT ![k][w] = r.q]
       IN /\ timestamps' =
                IF ~r.ok /\ w = "rpm" /\ ts[k].rps # <<>>
                THEN [ts EXCEPT ![k].rps = SubSeq(@, 1, Len(@) - 1)]
                ELSE ts
          /\ touched' = [touched EXCEPT ![t] =
                            IF r.q # timestamps[k][w] THEN @ \cup {w} ELSE @]
          /\ acquired' = [acquired EXCEPT ![k][w] =
                            IF r.ok
                            THEN Append(Recent(@, clock - Window(w)), clock)
                            ELSE @]
          /\ IF r.ok
             THEN /\ Goto(t, IF w = "rps" THEN AfterRps(k) ELSE "ta_ok")
                  /\ UNCHANGED cause
             ELSE /\ pc' = [pc EXCEPT ![t] = "rollback"]
                  /\ cause' = [cause EXCEPT ![t] = w]
                  /\ UNCHANGED <<res, guard>>
    /\ now' = [now EXCEPT ![t] = 0]
    /\ UNCHANGED <<limiters, current, clock, key, loaded, slot>>

\* SlidingWindow::try_acquire: lock, evict, test, push_back
SlidingWindow_lock(t, w) ==
    /\ pc[t] = (IF w = "rps" THEN "rps_lock" ELSE "rpm_lock")
    /\ LET k == key[t]
           r == SlidingWindow_locked(timestamps[k][w], Window(w),
                                     limiters[k][w], now[t])
       IN /\ timestamps' = [timestamps EXCEPT ![k][w] = r.q]
          /\ touched' = [touched EXCEPT ![t] =
                            IF r.q # timestamps[k][w] THEN @ \cup {w} ELSE @]
          /\ acquired' = [acquired EXCEPT ![k][w] =
                            IF r.ok
                            THEN Append(Recent(@, clock - Window(w)), clock)
                            ELSE @]
          /\ IF r.ok
             THEN /\ Goto(t, IF w = "rps" THEN AfterRps(k) ELSE "ta_ok")
                  /\ UNCHANGED cause
             ELSE /\ pc' = [pc EXCEPT ![t] = "rollback"]
                  /\ cause' = [cause EXCEPT ![t] = w]
                  /\ UNCHANGED <<res, guard>>
    /\ now' = [now EXCEPT ![t] = 0]
    /\ UNCHANGED <<limiters, current, clock, key, loaded, slot>>

\* (mutant) the rate was denied and the slot is kept
try_acquire_rollback_keeping(t) ==
    /\ pc[t] = "rollback"
    /\ pc' = [pc EXCEPT ![t] = "ta_ret"]
    /\ res' = [res EXCEPT ![t] = "denied"]
    /\ UNCHANGED <<limiters, current, timestamps, clock, key, loaded, now,
                   guard, slot, touched, cause, acquired>>

\* (mutant) the counter is lowered whether or not the entry has one in use
try_acquire_rollback_unconditional(t) ==
    /\ pc[t] = "rollback"
    /\ current' = [current EXCEPT ![key[t]] = fetch_sub(@)]
    /\ slot' = [slot EXCEPT ![t] = @ - 1]
    /\ pc' = [pc EXCEPT ![t] = "ta_ret"]
    /\ res' = [res EXCEPT ![t] = "denied"]
    /\ UNCHANGED <<limiters, timestamps, clock, key, loaded, now, guard,
                   touched, cause, acquired>>

\* RateLimiter::try_acquire: the rate was denied, release concurrent
try_acquire_rollback(t) ==
    /\ pc[t] = "rollback"
    /\ IF limiters[key[t]].concurrent # None
       THEN /\ current' = [current EXCEPT ![key[t]] = fetch_sub(@)]
            /\ slot' = [slot EXCEPT ![t] = @ - 1]
       ELSE UNCHANGED <<current, slot>>
    /\ pc' = [pc EXCEPT ![t] = "ta_ret"]
    /\ res' = [res EXCEPT ![t] = "denied"]
    /\ UNCHANGED <<limiters, timestamps, clock, key, loaded, now, guard,
                   touched, cause, acquired>>

\* (mutant) the counter is lowered for every guard that has a limiter
ConcurrentGuard_drop_unconditional(t) ==
    IF guard[t] = "held"
    THEN /\ current' = [current EXCEPT ![key[t]] = fetch_sub(@)]
         /\ slot' = [slot EXCEPT ![t] = @ - 1]
    ELSE UNCHANGED <<current, slot>>

\* impl Drop for ConcurrentGuard: the effect on the counter
ConcurrentGuard_drop(t) ==
    IF guard[t] = "held" /\ limiters[key[t]].concurrent # None
    THEN /\ current' = [current EXCEPT ![key[t]] = fetch_sub(@)]
         /\ slot' = [slot EXCEPT ![t] = @ - 1]
    ELSE UNCHANGED <<current, slot>>

\* the clock advances; acquisitions older than a window are forgotten
Tick(i) ==
    /\ i > clock
    /\ clock' = i
    /\ acquired' = [k \in DOMAIN acquired |->
                      [rps |-> Recent(acquired[k].rps, clock' - RpsWindow),
                       rpm |-> Recent(acquired[k].rpm, clock' - RpmWindow)]]
    /\ UNCHANGED <<limiters, current, timestamps, pc, key, loaded, now, res,
                   guard, slot, touched, cause>>

\* ------------------------------------------- direct callers (unit tests)
\* limiter.try_acquire(provider, model) called by a thread
direct_try_acquire(t, k) ==
    /\ pc[t] = "idle"
    /\ try_acquire_lookup(t, k)
    /\ UNCHANGED <<limiters, current, timestamps, clock, loaded, now,
                   acquired>>

\* the locals of a finished call go out of scope
Forget(t) ==
    /\ pc' = [pc EXCEPT ![t] = "idle"]
    /\ key' = [key EXCEPT ![t] = UnknownKey]
    /\ res' = [res EXCEPT ![t] = "none"]
    /\ guard' = [guard EXCEPT ![t] = "none"]
    /\ touched' = [touched EXCEPT ![t] = {}]
    /\ cause' = [cause EXCEPT ![t] = "none"]

\* (mutant) the drop of a guard gives the RPS window its timestamp back
direct_drop_rewinding(t) ==
    /\ pc[t] = "ta_ret"
    /\ res[t] = "ok"
    /\ ConcurrentGuard_drop(t)
    /\ Forget(t)
    /\ timestamps' = [k \in DOMAIN timestamps |->
                        IF k = key[t] /\ timestamps[k].rps # <<>>
                        THEN [timestamps[k] EXCEPT
                                !.rps = SubSeq(@, 1, Len(@) - 1)]
                        ELSE timestamps[k]]
    /\ UNCHANGED <<limiters, clock, loaded, now, acquired>>

\* drop(g): the caller lets go of the guard it got
direct_drop(t) ==
    /\ pc[t] = "ta_ret"
    /\ res[t] = "ok"
    /\ ConcurrentGuard_drop(t)
    /\ Forget(t)
    /\ UNCHANGED <<limiters, timestamps, clock, loaded, now, acquired>>

\* the caller saw Err(()) and goes on
direct_denied(t) ==
    /\ pc[t] = "ta_ret"
    /\ res[t] = "denied"
    /\ Forget(t)
    /\ UNCHANGED <<limiters, current, timestamps, clock, loaded, now, slot,
                   acquired>>

\* ---------------------------------------------------------- config.rs
\* ModelConfig / ProviderConfig as read from the TOML file
ModelConfig(name, rps, rpm, concurrent, t) ==
    [name |-> name, rps |-> rps, rpm |-> rpm, concurrent |-> concurrent,
     timeout_secs |-> t]

\* a provider entry carries its own rps / rpm / concurrent / timeout_secs,
\* the limits of its auto model, which Config::provider_settings hands on
ProviderConfig(name, supports_auto_model, rps, rpm, concurrent, t, models) ==
    [name |-> name, supports_auto_model |-> supports_auto_model,
     rps |-> rps, rpm |-> rpm, concurrent |-> concurrent,
     timeout_secs |-> t, models |-> models]

RECURSIVE insert_models(_, _, _)
\* for model in &provider.models { map.insert((provider.name, model.name), ..) }
insert_models(map, name, models) ==
    IF models = <<>> THEN map
    ELSE insert_models(
            register(map, <<name, Head(models).name>>,
                     ModelSettings(Head(models).rps, Head(models).rpm,
                                   Head(models).concurrent,
                                   Head(models).timeout_secs)),
            name, Tail(models))

RECURSIVE config_model_settings(_, _)
\* Config::model_settings: for provider in &self.providers { .. }
config_model_settings(map, providers) ==
    IF providers = <<>> THEN map
    ELSE config_model_settings(
            insert_models(map, Head(providers).name, Head(providers).models),
            Tail(providers))

RECURSIVE config_provider_settings(_, _)
\* Config::provider_settings: name -> ProviderSettings { supports_auto_model,
\* rps, rpm, concurrent, timeout_secs }
config_provider_settings(map, providers) ==
    IF providers = <<>> THEN map
    ELSE config_provider_settings(
            register(map, Head(providers).name,
                     [supports_auto_model |-> Head(providers).supports_auto_model,
                      rps |-> Head(providers).rps,
                      rpm |-> Head(providers).rpm,
                      concurrent |-> Head(providers).concurrent,
                      timeout_secs |-> Head(providers).timeout_secs]),
            Tail(providers))

\* main: register every model key, then (provider, "_auto") for every
\* provider that supports the auto model
main_rate_limiter(ms, ps) ==
    LET autos == { n \in DOMAIN ps : ps[n].supports_auto_model } IN
    [k \in DOMAIN ms \cup { <<n, "_auto">> : n \in autos } |->
        IF k[2] = "_auto" /\ k[1] \in autos
        THEN ModelSettings(ps[k[1]].rps, ps[k[1]].rpm, ps[k[1]].concurrent,
                           ps[k[1]].timeout_secs)
        ELSE ms[k]]

\* -------------------------------------------------------- provider/mod.rs
\* get_provider_with_executor: the names with an adapter
get_provider_with_executor(name) == name \in {"codex", "claude", "gemini"}

\* ------------------------------------------------------------- schema.rs
\* (mutant) "properties" is not looked at
validate_structured_schema_no_properties(schema) ==
    IF schema.root # "object" THEN "InvalidSchema"
    ELSE IF schema.type # "object" THEN "InvalidSchema"
    ELSE IF ~schema.compiles THEN "InvalidSchema"
    ELSE "ok"

\* validate_structured_schema: Ok or InvalidSchema
validate_structured_schema(schema) ==
    IF schema.root # "object" THEN "InvalidSchema"
    ELSE IF schema.type # "object" THEN "InvalidSchema"
    ELSE IF schema.properties # "object" THEN "InvalidSchema"
    ELSE IF ~schema.compiles THEN "InvalidSchema"
    ELSE "ok"

\* validate_output: the schema is compiled again, then the output checked
validate_output(schema, conforms) ==
    IF ~schema.compiles THEN "InvalidSchema"
    ELSE IF conforms THEN "ok"
    ELSE "OutputValidation"

\* -------------------------------------------------------------- error.rs
\* (mutant) a Timeout is answered 500 like the other adapter errors
status_code_timeout_500(e) ==
    CASE e = "ok" -> 200
      [] e \in {"ProviderNotFound", "ModelNotFound", "AutoModelNotSupported",
                "InvalidSchema"} -> 400
      [] e = "RateLimited" -> 429
      [] e = "OutputValidation" -> 422
      [] e \in {"ProviderExecution", "OutputParse", "ConfigLoad", "Timeout"} -> 500
      [] OTHER -> 0

\* AppError::error_response: the HTTP status of an error ("ok": 200)
status_code(e) ==
    CASE e = "ok" -> 200
      [] e \in {"ProviderNotFound", "ModelNotFound", "AutoModelNotSupported",
                "InvalidSchema"} -> 400
      [] e = "RateLimited" -> 429
      [] e = "OutputValidation" -> 422
      [] e = "Timeout" -> 504
      [] e \in {"ProviderExecution", "OutputParse", "ConfigLoad"} -> 500
      [] OTHER -> 0

\* AppError::error_response: whether the body has a stderr member
\* (stderr: Some(..); None is skipped when the body is serialized)
error_response_stderr(e) ==
    e \in {"ProviderExecution", "OutputParse", "OutputValidation"}

\* --------------------------------------------------------------- main.rs
\* (mutant) every model is taken as configured
model_configured_any(k) == TRUE

\* state.model_settings.contains_key(&key)
model_configured(k) == k \in DOMAIN model_settings

\* provider_cfg.map(|p| p.supports_auto_model).unwrap_or(true)
supports_auto(provider) ==
    IF provider \in DOMAIN provider_settings
    THEN provider_settings[provider].supports_auto_model
    ELSE TRUE

\* state.model_settings.get(&key).and_then(|s| s.timeout_secs)
model_timeout(k) ==
    IF k \in DOMAIN model_settings THEN model_settings[k].timeout_secs ELSE None

\* provider_cfg.and_then(|p| p.timeout_secs)
provider_timeout(provider) ==
    IF provider \in DOMAIN provider_settings
    THEN provider_settings[provider].timeout_secs
    ELSE None

\* generate up to admission: what the request is answered with, or where
\* it goes on ("acquire": try_acquire on key, "execute": no limiter asked)
generate_checks(r) ==
    IF validate_structured_schema(r.schema) # "ok"
    THEN [go |-> "InvalidSchema", validated |-> FALSE]
    ELSE IF ~get_provider_with_executor(r.provider)
    THEN [go |-> "ProviderNotFound", validated |-> TRUE]
    ELSE IF r.model # <<>>
    THEN IF ~model_configured(<<r.provider, r.model[1]>>)
         THEN [go |-> "ModelNotFound", validated |-> TRUE]
         ELSE [go |-> "acquire", validated |-> TRUE,
               key |-> <<r.provider, r.model[1]>>]
    ELSE IF ~supports_auto(r.provider)
    THEN [go |-> "AutoModelNotSupported", validated |-> TRUE]
    ELSE IF r.provider \in DOMAIN provider_settings
    THEN [go |-> "acquire", validated |-> TRUE, key |-> <<r.provider, "_auto">>]
    ELSE [go |-> "execute", validated |-> TRUE]

\* the handler calls provider.execute(prompt, schema, model, timeout_secs)
\* and awaits it
call_execute(t, timeout) ==
    /\ pc' = [pc EXCEPT ![t] = "executing"]
    /\ invoked' = [invoked EXCEPT ![t] = @ + 1]
    /\ timeout_secs' = [timeout_secs EXCEPT ![t] = timeout]

\* what is known of an answered request
Response(r, e, v, admission, n, out_ok) ==
    [req |-> r, err |-> e, status |-> status_code(e),
     stderr |-> error_response_stderr(e), validated |-> v,
     res |-> admission, invoked |-> n, output_ok |-> out_ok]

NoResponse == Response(NoRequest, "none", FALSE, "none", 0, FALSE)

\* generate returns (or its future is dropped): the task is free again
Return(t) ==
    /\ Forget(t)
    /\ req' = [req EXCEPT ![t] = NoRequest]
    /\ validated' = [validated EXCEPT ![t] = FALSE]
    /\ invoked' = [invoked EXCEPT ![t] = 0]
    /\ timeout_secs' = [timeout_secs EXCEPT ![t] = None]

\* the body has no "prompt" (or lacks another required member): the
\* web::Json<GenerateRequest> extractor fails, generate is not called, and
\* the client gets 400
json_rejected ==
    /\ last' = [Response(NoRequest, "JsonPayloadError", FALSE, "none", 0, FALSE)
                  EXCEPT !.status = 400]
    /\ UNCHANGED <<limiters, current, timestamps, clock, pc, key, loaded, now,
                   res, guard, slot, touched, cause, acquired,
                   model_settings, provider_settings, req, validated,
                   invoked, timeout_secs>>

\* (mutant) a rejected request has taken a place in the RPM window of the
\* auto model of its provider
generate_eager(t, r) ==
    /\ pc[t] = "idle"
    /\ \A u \in Procs : u < t => pc[u] # "idle"
    /\ LET c == generate_checks(r) IN
       CASE c.go = "acquire" ->
                 /\ try_acquire_lookup(t, c.key)
                 /\ req' = [req EXCEPT ![t] = r]
                 /\ validated' = [validated EXCEPT ![t] = c.validated]
                 /\ UNCHANGED <<invoked, timeout_secs, last, timestamps>>
         [] c.go = "execute" ->
                 /\ call_execute(t, provider_timeout(r.provider))
                 /\ req' = [req EXCEPT ![t] = r]
                 /\ validated' = [validated EXCEPT ![t] = c.validated]
                 /\ UNCHANGED <<key, res, guard, slot, touched, cause, last,
                                timestamps>>
         [] OTHER ->
                 /\ last' = Response(r, c.go, c.validated, "none", 0, FALSE)
                 /\ timestamps' =
                       [k \in DOMAIN timestamps |->
                          IF k = <<r.provider, "_auto">>
                          THEN [timestamps[k] EXCEPT !.rpm = Append(@, clock)]
                          ELSE timestamps[k]]
                 /\ UNCHANGED <<pc, key, res, guard, slot, touched, cause,
                                req, validated, invoked, timeout_secs>>
    /\ UNCHANGED <<limiters, current, clock, loaded, now,
                   acquired, model_settings, provider_settings>>

\* generate, from the request to the try_acquire call
generate(t, r) ==
    /\ pc[t] = "idle"
    /\ \A u \in Procs : u < t => pc[u] # "idle"   \* the first free task takes it
    /\ LET c == generate_checks(r) IN
       CASE c.go = "acquire" ->
                 /\ try_acquire_lookup(t, c.key)
                 /\ req' = [req EXCEPT ![t] = r]
                 /\ validated' = [validated EXCEPT ![t] = c.validated]
                 /\ UNCHANGED <<invoked, timeout_secs, last>>
         [] c.go = "execute" ->
                 /\ call_execute(t, provider_timeout(r.provider))
                 /\ req' = [req EXCEPT ![t] = r]
                 /\ validated' = [validated EXCEPT ![t] = c.validated]
                 /\ UNCHANGED <<key, res, guard, slot, touched, cause, last>>
         [] OTHER ->
                 /\ last' = Response(r, c.go, c.validated, "none", 0, FALSE)
                 /\ UNCHANGED <<pc, key, res, guard, slot, touched, cause,
                                req, validated, invoked, timeout_secs>>
    /\ UNCHANGED <<limiters, current, timestamps, clock, loaded, now,
                   acquired, model_settings, provider_settings>>

\* (mutant) a denied explicit-model request goes on without a guard
generate_admitted_lenient(t) ==
    /\ pc[t] = "ta_ret"
    /\ req[t] # NoRequest
    /\ call_execute(t, model_timeout(key[t]))
    /\ UNCHANGED <<limiters, current, timestamps, clock, key, loaded, now,
                   res, guard, slot, touched, cause, acquired,
                   model_settings, provider_settings, req, validated, last>>

\* (mutant) a denied auto-model request is refused
generate_admitted_strict(t) ==
    /\ pc[t] = "ta_ret"
    /\ req[t] # NoRequest
    /\ IF res[t] = "denied"
       THEN /\ last' = Response(req[t], "RateLimited", validated[t], res[t],
                                invoked[t], FALSE)
            /\ Return(t)
            /\ UNCHANGED slot
       ELSE /\ call_execute(t, model_timeout(key[t]))
            /\ UNCHANGED <<key, res, guard, slot, touched, cause, req,
                           validated, last>>
    /\ UNCHANGED <<limiters, current, timestamps, clock, loaded, now,
                   acquired, model_settings, provider_settings>>

\* (mutant) the guard is dropped as soon as the request is admitted
generate_admitted_unguarded(t) ==
    /\ pc[t] = "ta_ret"
    /\ req[t] # NoRequest
    /\ IF req[t].model # <<>> /\ res[t] = "denied"
       THEN /\ last' = Response(req[t], "RateLimited", validated[t], res[t],
                                invoked[t], FALSE)
            /\ Return(t)
            /\ UNCHANGED <<current, slot>>
       ELSE /\ call_execute(t, model_timeout(key[t]))
            /\ ConcurrentGuard_drop(t)
            /\ guard' = [guard EXCEPT ![t] = "none"]
            /\ UNCHANGED <<key, res, touched, cause, req, validated, last>>
    /\ UNCHANGED <<limiters, timestamps, clock, loaded, now, acquired,
                   model_settings, provider_settings>>

\* generate, from the return of try_acquire to the call of the adapter:
\* an explicit model maps Err to RateLimited; the auto model takes
\* .ok(), so Err leaves it with no guard
generate_admitted(t) ==
    /\ pc[t] = "ta_ret"
    /\ req[t] # NoRequest
    /\ IF req[t].model # <<>> /\ res[t] = "denied"
       THEN /\ last' = Response(req[t], "RateLimited", validated[t], res[t],
                                invoked[t], FALSE)
            /\ Return(t)
            /\ UNCHANGED slot
       ELSE /\ call_execute(t,
                    IF req[t].model # <<>>
                    THEN model_timeout(key[t])
                    ELSE provider_timeout(req[t].provider))
            /\ UNCHANGED <<key, res, guard, slot, touched, cause, req,
                           validated, last>>
    /\ UNCHANGED <<limiters, current, timestamps, clock, loaded, now,
                   acquired, model_settings, provider_settings>>

\* (mutant) an adapter error is answered by calling the adapter again
execute_returns_retrying(t, result, conforms) ==
    /\ pc[t] = "executing"
    /\ IF result # "ok" /\ invoked[t] < 2
       THEN /\ call_execute(t, timeout_secs[t])
            /\ UNCHANGED <<key, res, guard, slot, touched, cause, current,
                           req, validated, last>>
       ELSE /\ last' = Response(req[t], result, validated[t], res[t],
                                invoked[t], FALSE)
            /\ ConcurrentGuard_drop(t)
            /\ Return(t)
    /\ UNCHANGED <<limiters, timestamps, clock, loaded, now, acquired,
                   model_settings, provider_settings>>

\* provider.execute returns; validate_output; the response; _guard dropped
execute_returns(t, result, conforms) ==
    /\ pc[t] = "executing"
    /\ LET checked == IF result = "ok"
                      THEN validate_output(req[t].schema, conforms)
                      ELSE result
       IN last' = Response(req[t], checked, validated[t], res[t], invoked[t],
                           result = "ok" /\ checked = "ok")
    /\ ConcurrentGuard_drop(t)
    /\ Return(t)
    /\ UNCHANGED <<limiters, timestamps, clock, loaded, now, acquired,
                   model_settings, provider_settings>>

\* (mutant) a cancelled request forgets its guard without releasing it
cancel_leaking(t) ==
    /\ pc[t] = "executing"
    /\ last' = Response(req[t], "cancelled", validated[t], res[t], invoked[t],
                        FALSE)
    /\ Return(t)
    /\ UNCHANGED <<limiters, current, slot, timestamps, clock, loaded, now,
                   acquired, model_settings, provider_settings>>

\* the client goes away while execute is awaited: the future is dropped,
\* and _guard with it
cancel(t) ==
    /\ pc[t] = "executing"
    /\ last' = Response(req[t], "cancelled", validated[t], res[t], invoked[t],
                        FALSE)
    /\ ConcurrentGuard_drop(t)
    /\ Return(t)
    /\ UNCHANGED <<limiters, timestamps, clock, loaded, now, acquired,
                   model_settings, provider_settings>>

\* ------------------------------------------------------ provider/executor.rs
Programs == {"claude", "codex", "gemini"}
Timeouts == {None} \cup 1..MaxTimeout
MaxElapsed == DEFAULT_TIMEOUT_SECS + Overrun

\* timeout_secs.unwrap_or(DEFAULT_TIMEOUT_SECS)
unwrap_or_default(t) == IF t = None THEN DEFAULT_TIMEOUT_SECS ELSE t

NoArgs == [program |-> "", stdin_data |-> 0, timeout_secs |-> None]
NoChild == [state |-> "none", reads |-> FALSE, status |-> None]
NoPipe == [pending |-> 0, buffered |-> 0]
NoResult == [kind |-> "none", stderr |-> "none", program |-> "",
             timeout_secs |-> None, fate |-> "none"]

\* Err(AppError::ProviderExecution { message, stderr })
ProviderExecution(stderr, fate) ==
    [kind |-> "ProviderExecution", stderr |-> stderr, program |-> "",
     timeout_secs |-> None, fate |-> fate]

\* the Child is dropped with kill_on_drop(true): a running child is killed
drop_child(c) == IF c.state = "running" THEN [c EXCEPT !.state = "killed"] ELSE c

\* the entry of a race that has not begun
NoRace == [phase |-> "setup", current |-> 0,
           timestamps |-> [rps |-> <<>>, rpm |-> <<>>]]

\* no call of Provider::execute
NoCall == [pc |-> "idle", provider |-> "",
           run |-> [ok |-> FALSE, err |-> "none", stdout |-> <<>>],
           parsed |-> <<>>, result |-> [kind |-> "none", value |-> <<>>]]

ExecIdle ==
    /\ xpc = "idle"
    /\ xargs = NoArgs
    /\ child = NoChild
    /\ pipe = NoPipe
    /\ xclock = [now |-> 0, deadline |-> None]
    /\ xres = NoResult
    /\ registered = NoRegistration

\* no race on an entry and no adapter call
Quiet ==
    /\ lin = NoRace
    /\ ad = NoCall

\* executor.run(program, args, stdin_data, timeout_secs) is called
run_call(program, len, t) ==
    /\ xpc = "idle"
    /\ xpc' = "spawn"
    /\ xargs' = [program |-> program, stdin_data |-> len, timeout_secs |-> t]
    /\ UNCHANGED <<child, pipe, xclock, xres>>

\* Command::new(program)...kill_on_drop(true).spawn()
run_spawn(ok, reads) ==
    /\ xpc = "spawn"
    /\ IF ok
       THEN /\ child' = [state |-> "running", reads |-> reads, status |-> None]
            /\ pipe' = [pending |-> xargs.stdin_data, buffered |-> 0]
            /\ xpc' = "write"
            /\ UNCHANGED xres
       ELSE /\ xres' = ProviderExecution("empty", "spawn_failed")
            /\ xpc' = "returned"
            /\ UNCHANGED <<child, pipe>>
    /\ UNCHANGED <<xargs, xclock>>

\* stdin.write_all(stdin_data.as_bytes()).await, then stdin is dropped and
\* the wait starts: timeout(Duration::from_secs(timeout_secs), ..)
run_write_stdin ==
    /\ xpc = "write"
    /\ IF pipe.pending = 0
       THEN /\ xpc' = "wait"
            /\ xclock' = [xclock EXCEPT !.deadline =
                             xclock.now + unwrap_or_default(xargs.timeout_secs)]
            /\ UNCHANGED <<child, pipe, xres>>
       ELSE IF child.state # "running"
       THEN \* the read end is closed: the write fails, `?` drops the child
            /\ xres' = ProviderExecution("empty", "write_failed")
            /\ xpc' = "returned"
            /\ child' = drop_child(child)
            /\ UNCHANGED <<pipe, xclock>>
       ELSE \* as much as the pipe takes; a full pipe leaves the write pending
            /\ pipe.buffered < PipeCapacity
            /\ LET n == IF pipe.pending < PipeCapacity - pipe.buffered
                        THEN pipe.pending ELSE PipeCapacity - pipe.buffered
               IN pipe' = [pending |-> pipe.pending - n, buffered |-> pipe.buffered + n]
            /\ UNCHANGED <<xpc, child, xclock, xres>>
    /\ UNCHANGED xargs

\* the child reads what is in its stdin
child_reads ==
    /\ child.state = "running"
    /\ child.reads
    /\ pipe.buffered > 0
    /\ pipe' = [pipe EXCEPT !.buffered = 0]
    /\ UNCHANGED <<xpc, xargs, child, xclock, xres>>

\* the child exits with a status
child_exits(status) ==
    /\ child.state = "running"
    /\ child' = [child EXCEPT !.state = "exited", !.status = status]
    /\ UNCHANGED <<xpc, xargs, pipe, xclock, xres>>

\* (mutant) the exit status is not looked at
run_wait_returns_any_status ==
    /\ xpc = "wait"
    /\ child.state = "exited"
    /\ xres' = [kind |-> "ok", stderr |-> "captured", program |-> "",
                timeout_secs |-> None, fate |-> "exited"]
    /\ xpc' = "returned"
    /\ UNCHANGED <<xargs, child, pipe, xclock>>

\* child.wait_with_output() is ready: output.status.success() or not
run_wait_returns ==
    /\ xpc = "wait"
    /\ child.state = "exited"
    /\ xres' = IF child.status = 0
               THEN [kind |-> "ok", stderr |-> "captured", program |-> "",
                     timeout_secs |-> None, fate |-> "exited"]
               ELSE ProviderExecution("captured", "exited")
    /\ xpc' = "returned"
    /\ UNCHANGED <<xargs, child, pipe, xclock>>

\* child.wait_with_output() fails
run_wait_fails ==
    /\ xpc = "wait"
    /\ xres' = ProviderExecution("empty", "wait_failed")
    /\ xpc' = "returned"
    /\ child' = drop_child(child)
    /\ UNCHANGED <<xargs, pipe, xclock>>

\* the deadline passes before the output is ready: the wait future, and the
\* Child in it, is dropped and Timeout { provider, timeout_secs } returned
run_timeout ==
    /\ xpc = "wait"
    /\ child.state = "running"
    /\ xclock.now >= xclock.deadline
    /\ xres' = [kind |-> "Timeout", stderr |-> "none", program |-> xargs.program,
                timeout_secs |-> unwrap_or_default(xargs.timeout_secs),
                fate |-> "deadline"]
    /\ xpc' = "returned"
    /\ child' = drop_child(child)
    /\ UNCHANGED <<xargs, pipe, xclock>>

\* the calling task is cancelled at one of run's awaits
run_cancel ==
    /\ xpc \in {"write", "wait"}
    /\ xpc' = "cancelled"
    /\ child' = drop_child(child)
    /\ UNCHANGED <<xargs, pipe, xclock, xres>>

\* run has nothing to do but wait: for the pipe to drain, or for the child
run_blocked ==
    \/ /\ xpc = "write"
       /\ child.state = "running" /\ ~child.reads
       /\ pipe.pending > 0 /\ pipe.buffered >= PipeCapacity
    \/ /\ xpc = "wait"
       /\ child.state = "running"
       /\ xclock.now < xclock.deadline

\* a second passes while run is blocked
Tick_run ==
    /\ run_blocked
    /\ xclock.now < MaxElapsed
    /\ xclock' = [xclock EXCEPT !.now = @ + 1]
    /\ UNCHANGED <<xpc, xargs, child, pipe, xres>>

\* the caller has the result; the executor serves the next call
run_done ==
    /\ xpc \in {"returned", "cancelled"}
    /\ xpc' = "idle"
    /\ xargs' = NoArgs
    /\ child' = NoChild
    /\ pipe' = NoPipe
    /\ xclock' = [now |-> 0, deadline |-> None]
    /\ xres' = NoResult

TaskInit(P) ==
    /\ pc = [t \in P |-> "idle"]
    /\ key = [t \in P |-> UnknownKey]
    /\ loaded = [t \in P |-> 0]
    /\ now = [t \in P |-> 0]
    /\ res = [t \in P |-> "none"]
    /\ guard = [t \in P |-> "none"]
    /\ slot = [t \in P |-> 0]
    /\ touched = [t \in P |-> {}]
    /\ cause = [t \in P |-> "none"]
    /\ req = [t \in P |-> NoRequest]
    /\ validated = [t \in P |-> FALSE]
    /\ invoked = [t \in P |-> 0]
    /\ timeout_secs = [t \in P |-> None]
    /\ last = NoResponse

\* ModelLimiter::new for every entry: empty queues, current = 0
LimiterInit(reg) ==
    /\ limiters = reg
    /\ current = [k \in DOMAIN reg |-> 0]
    /\ timestamps = [k \in DOMAIN reg |-> [rps |-> <<>>, rpm |-> <<>>]]
    /\ acquired = [k \in DOMAIN reg |-> [rps |-> <<>>, rpm |-> <<>>]]
    /\ clock = 0

\* RateLimiter::new(), then one register as in the unit tests
LimInit ==
    /\ \E s \in LimiterSettings : LimiterInit(register(EmptyRegistry, TestKey, s))
    /\ model_settings = EmptyRegistry
    /\ provider_settings = EmptyRegistry
    /\ TaskInit(Tasks)
    /\ ExecIdle
    /\ Quiet

LimNext ==
    \/ \E t \in Procs, k \in CallKeys : direct_try_acquire(t, k) /\ UNCHANGED <<hvars, xvars, registered, avars>>
    \/ \E t \in Procs : ConcurrentLimiter_load(t) /\ UNCHANGED <<hvars, xvars, registered, avars>>
    \/ \E t \in Procs : ConcurrentLimiter_cas(t) /\ UNCHANGED <<hvars, xvars, registered, avars>>
    \/ \E t \in Procs : SlidingWindow_now(t, "rps") /\ UNCHANGED <<hvars, xvars, registered, avars>>
    \/ \E t \in Procs : SlidingWindow_lock(t, "rps") /\ UNCHANGED <<hvars, xvars, registered, avars>>
    \/ \E t \in Procs : SlidingWindow_now(t, "rpm") /\ UNCHANGED <<hvars, xvars, registered, avars>>
    \/ \E t \in Procs : SlidingWindow_lock(t, "rpm") /\ UNCHANGED <<hvars, xvars, registered, avars>>
    \/ \E t \in Procs : try_acquire_rollback(t) /\ UNCHANGED <<hvars, xvars, registered, avars>>
    \/ \E t \in Procs : direct_drop(t) /\ UNCHANGED <<hvars, xvars, registered, avars>>
    \/ \E t \in Procs : direct_denied(t) /\ UNCHANGED <<hvars, xvars, registered, avars>>
    \/ \E i \in Instants : Tick(i) /\ UNCHANGED <<hvars, xvars, registered, avars>>

LimSpec == LimInit /\ [][LimNext]_vars

\* the configurations the server is started with
EmptyConfig == <<>>

ServerConfig(ml, al) ==
    << ProviderConfig("claude", TRUE, al.rps, al.rpm, al.concurrent, 60,
                      << ModelConfig("sonnet", ml.rps, ml.rpm, ml.concurrent, 60) >>),
       ProviderConfig("codex", FALSE, None, None, None, None, <<>>) >>

\* no configuration; and claude/sonnet under a concurrency cap, under an
\* RPS cap with a concurrency cap, and under an RPM cap
Configs ==
    { EmptyConfig,
      ServerConfig(ModelSettings(None, None, 2, 60), ModelSettings(None, None, 1, 60)),
      ServerConfig(ModelSettings(1, None, 1, 60), ModelSettings(None, None, 1, 60)),
      ServerConfig(ModelSettings(None, 1, None, 60), ModelSettings(None, None, None, 60)) }

\* main: the state the server starts serving with
Init ==
    /\ \E cfg \in Configs :
        /\ model_settings = config_model_settings(EmptyRegistry, cfg)
        /\ provider_settings = config_provider_settings(EmptyRegistry, cfg)
        /\ LimiterInit(main_rate_limiter(
                config_model_settings(EmptyRegistry, cfg),
                config_provider_settings(EmptyRegistry, cfg)))
    /\ TaskInit(RequestIds)
    /\ ExecIdle
    /\ Quiet

\* the response is written to the client
send_response ==
    /\ last # NoResponse
    /\ last' = NoResponse
    /\ UNCHANGED <<limiters, current, timestamps, clock, pc, key, loaded, now,
                   res, guard, slot, touched, cause, acquired,
                   model_settings, provider_settings, req, validated,
                   invoked, timeout_secs>>

\* a response is written before the server takes its next step
Ready == last = NoResponse

Next ==
    \/ \E t \in Procs, r \in GenerateRequests : Ready /\ generate(t, r) /\ UNCHANGED <<xvars, registered, avars>>
    \/ \E t \in Procs : Ready /\ ConcurrentLimiter_load(t) /\ UNCHANGED <<hvars, xvars, registered, avars>>
    \/ \E t \in Procs : Ready /\ ConcurrentLimiter_cas(t) /\ UNCHANGED <<hvars, xvars, registered, avars>>
    \/ \E t \in Procs : Ready /\ SlidingWindow_now(t, "rps") /\ UNCHANGED <<hvars, xvars, registered, avars>>
    \/ \E t \in Procs : Ready /\ SlidingWindow_lock(t, "rps") /\ UNCHANGED <<hvars, xvars, registered, avars>>
    \/ \E t \in Procs : Ready /\ SlidingWindow_now(t, "rpm") /\ UNCHANGED <<hvars, xvars, registered, avars>>
    \/ \E t \in Procs : Ready /\ SlidingWindow_lock(t, "rpm") /\ UNCHANGED <<hvars, xvars, registered, avars>>
    \/ \E t \in Procs : Ready /\ try_acquire_rollback(t) /\ UNCHANGED <<hvars, xvars, registered, avars>>
    \/ \E t \in Procs : Ready /\ generate_admitted(t) /\ UNCHANGED <<xvars, registered, avars>>
    \/ \E t \in Procs, result \in ExecuteResults, conforms \in BOOLEAN :
          Ready /\ execute_returns(t, result, conforms) /\ UNCHANGED <<xvars, registered, avars>>
    \/ \E t \in Procs : Ready /\ cancel(t) /\ UNCHANGED <<xvars, registered, avars>>
    \/ \E i \in Instants : Ready /\ Tick(i) /\ UNCHANGED <<hvars, xvars, registered, avars>>
    \/ Ready /\ json_rejected /\ UNCHANGED <<xvars, registered, avars>>
    \/ send_response /\ UNCHANGED <<xvars, registered, avars>>

Spec == Init /\ [][Next]_vars

\* the positions of a call of try_acquire that has not returned
InCall == {"conc_load", "conc_cas", "rps_now", "rps_lock", "rpm_now",
           "rpm_lock", "rollback"}

\* the next step of the call of t, whichever it is
try_acquire_step(t) ==
    /\ \/ ConcurrentLimiter_load(t)
       \/ ConcurrentLimiter_cas(t)
       \/ SlidingWindow_now(t, "rps")
       \/ SlidingWindow_lock(t, "rps")
       \/ SlidingWindow_now(t, "rpm")
       \/ SlidingWindow_lock(t, "rpm")
       \/ try_acquire_rollback(t)
    /\ UNCHANGED <<hvars, xvars, registered>>

\* a concurrency cap alone, and a concurrency cap with both windows
LiveSettings ==
    { ModelSettings(None, None, 1, None),
      ModelSettings(1, 1, MaxConcurrent, None) }

LiveInit ==
    /\ \E st \in LiveSettings :
          LimiterInit(register(EmptyRegistry, TestKey, st))
    /\ model_settings = EmptyRegistry
    /\ provider_settings = EmptyRegistry
    /\ TaskInit(Tasks)
    /\ ExecIdle
    /\ Quiet

\* the callers of LimSpec, each on a thread that is scheduled again and
\* again: a call that can take a step takes one
LiveSpec ==
    /\ LiveInit
    /\ [][LimNext]_vars
    /\ \A t \in Tasks : WF_vars(try_acquire_step(t) /\ UNCHANGED avars)

\* callers that take turns: no call starts, no guard is dropped and no
\* second passes while a call of try_acquire is in progress
NoCallInProgress == \A u \in Procs : pc[u] \in {"idle", "ta_ret"}

\* ---------------------------------------------- calls that race on an entry
\* the callers whose calls race; the last caller prepares the entry
Racers == 1..(NCallers - 1)

\* the limits of the entry the calls race on
LinSettings ==
    { ModelSettings(r, m, c, None) :
        r \in {None, MaxRps}, m \in {None, 1}, c \in {None, 1, MaxConcurrent} }

\* RateLimiter::try_acquire run alone on an entry with settings L in state
\* st at instant n: the concurrency check, RPS, RPM, the rollback
try_acquire_alone(L, st, n) ==
    IF L.concurrent # None /\ AtCapacity(st.current, L.concurrent)
    THEN [ok |-> FALSE, st |-> st]
    ELSE LET r == IF L.rps # None
                  THEN SlidingWindow_locked(st.rps, RpsWindow, L.rps, n)
                  ELSE [ok |-> TRUE, q |-> st.rps]
             m == IF r.ok /\ L.rpm # None
                  THEN SlidingWindow_locked(st.rpm, RpmWindow, L.rpm, n)
                  ELSE [ok |-> r.ok, q |-> st.rpm]
             ok == r.ok /\ m.ok
         IN [ok |-> ok,
             st |-> [current |-> IF ok /\ L.concurrent # None
                                 THEN st.current + 1 ELSE st.current,
                     rps |-> r.q, rpm |-> m.q]]

RECURSIVE SequentialOutcomes(_, _, _, _)
\* what the calls of the callers S can return, and the entry they leave,
\* when they run one after the other in some order
SequentialOutcomes(L, st, n, S) ==
    IF S = {} THEN {[ok |-> {}, st |-> st]}
    ELSE UNION { LET a == try_acquire_alone(L, st, n) IN
                 { [ok |-> (IF a.ok THEN o.ok \cup {t} ELSE o.ok), st |-> o.st] :
                     o \in SequentialOutcomes(L, a.st, n, S \ {t}) } :
                 t \in S }

LinInit ==
    /\ \E st \in LinSettings :
          LimiterInit(register(EmptyRegistry, TestKey, st))
    /\ model_settings = EmptyRegistry
    /\ provider_settings = EmptyRegistry
    /\ TaskInit(1..NCallers)
    /\ ExecIdle
    /\ Quiet

\* the calls of the racers begin: from here on no guard is dropped and the
\* clock stands still
race_begins ==
    /\ lin.phase = "setup"
    /\ \A t \in Procs : pc[t] = "idle" \/ (pc[t] = "ta_ret" /\ res[t] = "ok")
    /\ lin' = [phase |-> "race", current |-> current[TestKey],
               timestamps |-> timestamps[TestKey]]
    /\ UNCHANGED <<limvars, hvars, xvars, registered, ad>>

\* the last caller alone calls, drops and lets time pass; then the racers
\* call try_acquire on the same key, their steps interleaved in any way
LinNext ==
    \/ /\ lin.phase = "setup"
       /\ direct_try_acquire(NCallers, TestKey)
       /\ UNCHANGED <<hvars, xvars, registered, avars>>
    \/ /\ lin.phase = "setup"
       /\ direct_drop(NCallers)
       /\ UNCHANGED <<hvars, xvars, registered, avars>>
    \/ /\ lin.phase = "setup"
       /\ direct_denied(NCallers)
       /\ UNCHANGED <<hvars, xvars, registered, avars>>
    \/ \E i \in Instants :
          /\ lin.phase = "setup"
          /\ NoCallInProgress
          /\ Tick(i)
          /\ UNCHANGED <<hvars, xvars, registered, avars>>
    \/ race_begins
    \/ \E t \in Racers :
          /\ lin.phase = "race"
          /\ direct_try_acquire(t, TestKey)
          /\ UNCHANGED <<hvars, xvars, registered, avars>>
    \/ \E t \in Procs : try_acquire_step(t) /\ UNCHANGED avars

LinSpec == LinInit /\ [][LinNext]_vars

\* the settings registered in turn: those of test_concurrent_limit, those
\* of test_combined_limits, and an RPS cap alone
RegisterSettings ==
    { ModelSettings(None, None, MaxConcurrent, None),
      ModelSettings(MaxRps, MaxRpm, MaxConcurrent, None),
      ModelSettings(1, None, None, None) }

\* the key the registrations are for; the other key of CallKeys never has
\* an entry
RegisterKeys == {TestKey}

\* RateLimiter::new(): no entry
SeqInit ==
    /\ LimiterInit(EmptyRegistry)
    /\ model_settings = EmptyRegistry
    /\ provider_settings = EmptyRegistry
    /\ TaskInit(1..NCallers)
    /\ ExecIdle
    /\ Quiet

SeqNext ==
    \/ \E k \in RegisterKeys, st \in RegisterSettings :
          RateLimiter_register(k, st) /\ UNCHANGED <<hvars, xvars, avars>>
    \/ \E t \in Procs, k \in CallKeys :
          NoCallInProgress /\ direct_try_acquire(t, k)
              /\ UNCHANGED <<hvars, xvars, registered, avars>>
    \/ \E t \in Procs : ConcurrentLimiter_load(t) /\ UNCHANGED <<hvars, xvars, registered, avars>>
    \/ \E t \in Procs : ConcurrentLimiter_cas(t) /\ UNCHANGED <<hvars, xvars, registered, avars>>
    \/ \E t \in Procs : SlidingWindow_now(t, "rps") /\ UNCHANGED <<hvars, xvars, registered, avars>>
    \/ \E t \in Procs : SlidingWindow_lock(t, "rps") /\ UNCHANGED <<hvars, xvars, registered, avars>>
    \/ \E t \in Procs : SlidingWindow_now(t, "rpm") /\ UNCHANGED <<hvars, xvars, registered, avars>>
    \/ \E t \in Procs : SlidingWindow_lock(t, "rpm") /\ UNCHANGED <<hvars, xvars, registered, avars>>
    \/ \E t \in Procs : try_acquire_rollback(t) /\ UNCHANGED <<hvars, xvars, registered, avars>>
    \/ \E t \in Procs :
          NoCallInProgress /\ direct_drop(t) /\ UNCHANGED <<hvars, xvars, registered, avars>>
    \/ \E t \in Procs :
          NoCallInProgress /\ direct_denied(t) /\ UNCHANGED <<hvars, xvars, registered, avars>>
    \/ \E i \in Instants :
          NoCallInProgress /\ Tick(i) /\ UNCHANGED <<hvars, xvars, registered, avars>>

SeqSpec == SeqInit /\ [][SeqNext]_vars

\* one executor, called again and again, with no server around it
ExecInit ==
    /\ LimiterInit(EmptyRegistry)
    /\ model_settings = EmptyRegistry
    /\ provider_settings = EmptyRegistry
    /\ TaskInit({})
    /\ ExecIdle
    /\ Quiet

ExecNext ==
    \/ \E program \in Programs, len \in 0..MaxPrompt, t \in Timeouts :
          run_call(program, len, t) /\ UNCHANGED <<limvars, hvars, registered, avars>>
    \/ \E ok \in BOOLEAN, reads \in BOOLEAN :
          run_spawn(ok, reads) /\ UNCHANGED <<limvars, hvars, registered, avars>>
    \/ run_write_stdin /\ UNCHANGED <<limvars, hvars, registered, avars>>
    \/ child_reads /\ UNCHANGED <<limvars, hvars, registered, avars>>
    \/ \E status \in {0, 1} : child_exits(status) /\ UNCHANGED <<limvars, hvars, registered, avars>>
    \/ run_wait_returns /\ UNCHANGED <<limvars, hvars, registered, avars>>
    \/ run_wait_fails /\ UNCHANGED <<limvars, hvars, registered, avars>>
    \/ run_timeout /\ UNCHANGED <<limvars, hvars, registered, avars>>
    \/ run_cancel /\ UNCHANGED <<limvars, hvars, registered, avars>>
    \/ Tick_run /\ UNCHANGED <<limvars, hvars, registered, avars>>
    \/ run_done /\ UNCHANGED <<limvars, hvars, registered, avars>>

ExecSpec == ExecInit /\ [][ExecNext]_vars

\* ------------------------------------------ provider/{claude,codex,gemini}.rs
\* the stdout of a child is a sequence of tokens: the JSON punctuation,
\* "q" (a double quote), "1" (a number), "so" (the text structured_output),
\* "x" (any other word), "nl" (a line break), "json", and "fence" (the
\* three backquotes that open and close a fenced block)
Whitespace == {"nl"}

\* what a JSON string of the output may hold between its quotes
StringTokens == {"so", "x", "fence", ":"}

RECURSIVE StringContents(_)
StringContents(n) ==
    IF n = 0 THEN {<<>>}
    ELSE StringContents(n - 1)
           \cup {Append(c, tok) : c \in StringContents(n - 1), tok \in StringTokens}

JsonStrings == {<<"q">> \o c \o <<"q">> : c \in StringContents(MaxString)}

RECURSIVE JsonObjects(_)
\* the JSON objects of depth d at most, of one member at most
JsonObjects(d) ==
    IF d = 0 THEN {<<"{", "}">>}
    ELSE LET values == {<<"1">>} \cup JsonStrings \cup JsonObjects(d - 1) IN
         {<<"{", "}">>}
           \cup {<<"{">> \o k \o <<":">> \o v \o <<"}">> :
                    k \in JsonStrings, v \in values}

\* what a child prints: a JSON object, bare or between line breaks; a
\* fenced block, with or without the json tag, with prose around it, around
\* an object or around prose; a fence that is never closed; prose; nothing
Stdouts ==
    LET objects == JsonObjects(MaxDepth)
        bodies == objects \cup {<<"x">>}
        opens == {<<"fence", "json", "nl">>, <<"fence", "json">>,
                  <<"fence", "nl">>, <<"fence">>}
        closes == {<<"nl", "fence">>, <<"fence">>}
        before == {<<>>, <<"x", "nl">>}
        after == {<<>>, <<"nl", "x">>}
    IN objects
         \cup {<<"nl">> \o o \o <<"nl">> : o \in objects}
         \cup {b \o op \o body \o cl \o a :
                  b \in before, op \in opens, body \in bodies,
                  cl \in closes, a \in after}
         \cup {op \o o : op \in opens, o \in objects}
         \cup {<<>>, <<"x">>, <<"1">>, <<"q", "x", "q">>}

\* what CliExecutor::run hands to the adapter
RunResults ==
    {[ok |-> TRUE, err |-> "none", stdout |-> o] : o \in Stdouts}
      \cup {[ok |-> FALSE, err |-> e, stdout |-> <<>>] :
               e \in {"Timeout", "ProviderExecution"}}

\* str::find: where pat first occurs in text at or after from; 0 for None
Find(text, pat, from) ==
    LET at == {i \in from..(Len(text) - Len(pat) + 1) :
                  SubSeq(text, i, i + Len(pat) - 1) = pat}
    IN IF at = {} THEN 0 ELSE CHOOSE i \in at : \A j \in at : i <= j

\* str::trim
trim(text) ==
    LET inked == {i \in DOMAIN text : text[i] \notin Whitespace} IN
    IF inked = {} THEN <<>>
    ELSE SubSeq(text, CHOOSE i \in inked : \A j \in inked : i <= j,
                      CHOOSE i \in inked : \A j \in inked : i >= j)

\* gemini.rs extract_json: Some(<<block>>) or None (<<>>)
extract_json(text) ==
    LET start1 == Find(text, <<"fence", "json">>, 1)
        content1 == start1 + 2
        end1 == IF start1 = 0 THEN 0 ELSE Find(text, <<"fence">>, content1)
        start2 == Find(text, <<"fence">>, 1)
        newline == IF start2 = 0 THEN 0 ELSE Find(text, <<"nl">>, start2 + 1)
        content2 == IF newline # 0 THEN newline + 1 ELSE start2 + 1
        end2 == IF start2 = 0 THEN 0 ELSE Find(text, <<"fence">>, content2)
    IN IF start1 # 0 /\ end1 # 0
       THEN <<trim(SubSeq(text, content1, end1 - 1))>>
       ELSE IF start2 # 0 /\ end2 # 0
       THEN <<trim(SubSeq(text, content2, end2 - 1))>>
       ELSE <<>>

\* ---- serde_json::from_str, on tokens
ParseError == [ok |-> FALSE, next |-> 0, out |-> <<>>]

\* the position of the first token at or after i that is not whitespace
skip_whitespace(text, i) ==
    LET inked == {j \in i..Len(text) : text[j] \notin Whitespace} IN
    IF inked = {} THEN Len(text) + 1
    ELSE CHOOSE j \in inked : \A m \in inked : j <= m

\* a string: from a quote to the next one, with no line break in between
parse_string(text, i) ==
    IF i > Len(text) \/ text[i] # "q" THEN ParseError
    ELSE LET j == Find(text, <<"q">>, i + 1) IN
         IF j = 0 \/ \E m \in (i + 1)..(j - 1) : text[m] = "nl"
         THEN ParseError
         ELSE [ok |-> TRUE, next |-> j + 1, out |-> SubSeq(text, i, j)]

RECURSIVE parse_value(_, _)
\* a value at position i: a number, a string, or an object of one member
\* at most; out is the value with the whitespace between its tokens dropped
parse_value(text, i) ==
    IF i > Len(text) THEN ParseError
    ELSE IF text[i] = "1" THEN [ok |-> TRUE, next |-> i + 1, out |-> <<"1">>]
    ELSE IF text[i] = "q" THEN parse_string(text, i)
    ELSE IF text[i] # "{" THEN ParseError
    ELSE LET j == skip_whitespace(text, i + 1) IN
         IF j <= Len(text) /\ text[j] = "}"
         THEN [ok |-> TRUE, next |-> j + 1, out |-> <<"{", "}">>]
         ELSE LET k == parse_string(text, j) IN
              IF ~k.ok THEN ParseError
              ELSE LET c == skip_whitespace(text, k.next) IN
                   IF c > Len(text) \/ text[c] # ":" THEN ParseError
                   ELSE LET v == parse_value(text, skip_whitespace(text, c + 1)) IN
                        IF ~v.ok THEN ParseError
                        ELSE LET m == skip_whitespace(text, v.next) IN
                             IF m > Len(text) \/ text[m] # "}" THEN ParseError
                             ELSE [ok |-> TRUE, next |-> m + 1,
                                   out |-> <<"{">> \o k.out \o <<":">>
                                             \o v.out \o <<"}">>]

\* serde_json::from_str: one value, whitespace around it, nothing else
from_str(text) ==
    LET v == parse_value(text, skip_whitespace(text, 1)) IN
    IF v.ok /\ skip_whitespace(text, v.next) > Len(text)
    THEN [ok |-> TRUE, value |-> v.out]
    ELSE [ok |-> FALSE, value |-> <<>>]

\* Value::get("structured_output"): Some(<<value>>) or None (<<>>)
get_structured_output(value) ==
    IF Len(value) >= 7 /\ SubSeq(value, 1, 5) = <<"{", "q", "so", "q", ":">>
    THEN <<SubSeq(value, 6, Len(value) - 1)>>
    ELSE <<>>

\* Result<Value, AppError>
Ok(value) == [kind |-> "Ok", value |-> value]
OutputParse(stdout) == [kind |-> "OutputParse", value |-> stdout]
Propagated(run) == [kind |-> run.err, value |-> <<>>]

\* ClaudeProvider::execute, from the return of executor.run
claude_execute(run) ==
    IF ~run.ok THEN [parsed |-> <<>>, result |-> Propagated(run)]
    ELSE LET response == from_str(run.stdout) IN
         [parsed |-> <<run.stdout>>,
          result |->
            IF ~response.ok THEN OutputParse(run.stdout)
            ELSE IF get_structured_output(response.value) = <<>>
            THEN OutputParse(run.stdout)
            ELSE Ok(get_structured_output(response.value)[1])]

\* CodexProvider::execute, from the return of executor.run
codex_execute(run) ==
    IF ~run.ok THEN [parsed |-> <<>>, result |-> Propagated(run)]
    ELSE LET response == from_str(run.stdout) IN
         [parsed |-> <<run.stdout>>,
          result |-> IF response.ok THEN Ok(response.value)
                     ELSE OutputParse(run.stdout)]

\* (mutant) the OutputParse of gemini carries the text it tried to parse
gemini_execute_carrying_block(run) ==
    IF ~run.ok THEN [parsed |-> <<>>, result |-> Propagated(run)]
    ELSE LET block == extract_json(run.stdout)
             json_str == IF block # <<>> THEN block[1] ELSE run.stdout
             response == from_str(json_str)
         IN [parsed |-> <<json_str>>,
             result |-> IF response.ok THEN Ok(response.value)
                        ELSE OutputParse(json_str)]

\* GeminiProvider::execute, from the return of executor.run
gemini_execute(run) ==
    IF ~run.ok THEN [parsed |-> <<>>, result |-> Propagated(run)]
    ELSE LET block == extract_json(run.stdout)
             json_str == IF block # <<>> THEN block[1] ELSE run.stdout
             response == from_str(json_str)
         IN [parsed |-> <<json_str>>,
             result |-> IF response.ok THEN Ok(response.value)
                        ELSE OutputParse(run.stdout)]

\* provider.execute(..) is called and executor.run returns
execute_run_returns(provider, run) ==
    /\ ad.pc = "idle"
    /\ ad' = [NoCall EXCEPT !.pc = "ran", !.provider = provider, !.run = run]

\* the adapter makes its result of what run returned
execute_result ==
    /\ ad.pc = "ran"
    /\ LET r == CASE ad.provider = "claude" -> claude_execute(ad.run)
                  [] ad.provider = "codex" -> codex_execute(ad.run)
                  [] ad.provider = "gemini" -> gemini_execute(ad.run)
       IN ad' = [ad EXCEPT !.pc = "returned", !.parsed = r.parsed,
                           !.result = r.result]

\* the caller has the result
execute_done ==
    /\ ad.pc = "returned"
    /\ ad' = NoCall

AdapterInit ==
    /\ LimiterInit(EmptyRegistry)
    /\ model_settings = EmptyRegistry
    /\ provider_settings = EmptyRegistry
    /\ TaskInit({})
    /\ ExecIdle
    /\ lin = NoRace
    /\ ad = NoCall

AdapterNext ==
    \/ \E provider \in Programs, run \in RunResults :
          /\ execute_run_returns(provider, run)
          /\ UNCHANGED <<limvars, hvars, xvars, registered, lin>>
    \/ execute_result /\ UNCHANGED <<limvars, hvars, xvars, registered, lin>>
    \/ execute_done /\ UNCHANGED <<limvars, hvars, xvars, registered, lin>>

\* the three adapters, each on every output of the child
AdapterSpec == AdapterInit /\ [][AdapterNext]_vars

\* ------------------------------------------------------------- claims
Denied(t) == pc[t] = "ta_ret" /\ res[t] = "denied"

\* C1: for every registered key with a concurrency cap N, in every state
\* reached by any interleaving of try_acquire calls (their rollback after
\* a rate denial included) and guard drops, current <= N.
C1_CurrentAtMostMax ==
    \A k \in DOMAIN limiters :
        limiters[k].concurrent # None => current[k] <= limiters[k].concurrent

\* C1 witness: the counter is at a cap of 2 while one caller holds a guard
\* and another, denied by a window, has not rolled its slot back yet.
C1_Witness ==
    /\ limiters[TestKey].concurrent = 2
    /\ current[TestKey] = 2
    /\ \E t, u \in Procs : guard[t] = "held" /\ pc[u] = "rollback"

\* C3 (as stated): a try_acquire that returns Denied has changed neither
\* the counter nor the RPS queue nor the RPM queue, whichever sub-limit
\* denied it.
C3_DeniedChangesNothing ==
    \A t \in Procs : Denied(t) => slot[t] = 0 /\ touched[t] = {}

\* C3 (amended): a try_acquire that returns Denied has no net effect on
\* the counter and has not changed the RPM queue; it has changed the RPS
\* queue only when the denial came from the RPM window, and then by
\* evicting the expired timestamps and appending its own.
C3_DeniedKeepsCounterAndRpm ==
    \A t \in Procs :
        Denied(t) =>
            /\ slot[t] = 0
            /\ "rpm" \notin touched[t]
            /\ cause[t] \in {"concurrent", "rps"} => touched[t] = {}
            /\ cause[t] = "rpm" /\ limiters[key[t]].rps # None
                   => /\ touched[t] = {"rps"}
                      /\ timestamps[key[t]].rps # <<>>

\* C3 witness: a call denied by the RPM window after the RPS window took
\* its timestamp, with a concurrency slot taken and given back.
C3_Witness ==
    \E t \in Procs :
        /\ Denied(t)
        /\ cause[t] = "rpm"
        /\ touched[t] = {"rps"}
        /\ limiters[key[t]].concurrent # None

\* C4: for the window of length W and cap K (RPS: 1 s, RPM: 60 s), under
\* any interleaving of try_acquire calls no interval of length W holds
\* more than K successful acquisitions.
C4_AtMostKPerWindow ==
    \A k \in DOMAIN limiters : \A w \in {"rps", "rpm"} :
        limiters[k][w] # None =>
            Len(Recent(acquired[k][w], clock - Window(w))) <= limiters[k][w]

\* C9: try_acquire on a key that was never registered succeeds with an
\* empty guard, and dropping that guard changes no counter and no queue.
C9_UnregisteredPasses ==
    [][ \A t \in Procs :
          /\ (pc[t] = "idle" /\ pc'[t] # "idle" /\ ~Registered(key'[t]))
                => pc'[t] = "ta_ret" /\ res'[t] = "ok" /\ guard'[t] = "empty"
          /\ (guard[t] = "empty" /\ guard'[t] # "empty")
                => current' = current /\ timestamps' = timestamps ]_vars

\* C9 witness: an empty guard is held for an unregistered key while the
\* registered key is at its concurrency cap.
C9_Witness ==
    \E t \in Procs :
        /\ guard[t] = "empty"
        /\ ~Registered(key[t])
        /\ limiters[TestKey].concurrent = 1
        /\ current[TestKey] = 1

SonnetKey == <<"claude", "sonnet">>

\* the requests that name the key k with an explicit model and whose
\* adapter invocation is in progress
Executing(k) ==
    { t \in Procs : pc[t] = "executing" /\ req[t].provider = k[1]
                    /\ req[t].model = <<k[2]>> }

\* C2: the adapter's execute is invoked only after the request schema was
\* validated and the request's try_acquire was not denied, and 200 is
\* returned only after validate_output succeeded.
C2_ExecuteOnlyWhenAdmitted ==
    /\ \A t \in Procs : invoked[t] > 0 => validated[t] /\ res[t] # "denied"
    /\ last.status = 200 => last.output_ok

\* C5: for an explicit-model key registered with concurrent = N, at most N
\* requests have their adapter invocation in progress at once, and each of
\* them holds its guard (one slot of the counter) while it does.
C5_AtMostNExecuting ==
    \A k \in DOMAIN model_settings :
        model_settings[k].concurrent # None =>
            /\ Cardinality(Executing(k)) <= model_settings[k].concurrent
            /\ \A t \in Executing(k) : guard[t] = "held" /\ slot[t] = 1

\* C5 witness: with N = 2, two requests on the key are executing and a
\* third one has just been refused.
C5_Witness ==
    /\ SonnetKey \in DOMAIN model_settings
    /\ model_settings[SonnetKey].concurrent = 2
    /\ Cardinality(Executing(SonnetKey)) = 2
    /\ last.err = "RateLimited"
    /\ last.req.model = <<"sonnet">>

\* C6: every slot taken is released exactly once on every exit from the
\* adapter invocation (response, error, timeout, validation failure,
\* cancellation): a task that is over holds no slot, no slot is released
\* twice, and a key with no request in flight has current = 0.
C6_SlotsReleased ==
    /\ \A t \in Procs : slot[t] \in {0, 1} /\ (pc[t] = "idle" => slot[t] = 0)
    /\ \A k \in DOMAIN limiters :
          (\A t \in Procs : pc[t] = "idle" \/ key[t] # k) => current[k] = 0

\* C6 witness: an admitted request on a capped key was cancelled, and with
\* no request left in flight the counter is back at 0.
C6_Witness ==
    /\ last.err = "cancelled"
    /\ last.res = "ok"
    /\ last.req.model = <<"sonnet">>
    /\ limiters[SonnetKey].concurrent # None
    /\ \A t \in Procs : pc[t] = "idle"
    /\ current[SonnetKey] = 0

\* C7: a request with an explicit, configured model whose try_acquire is
\* denied is answered RateLimited (429) and never invokes the adapter.
C7_DeniedExplicitIs429 ==
    /\ \A t \in Procs :
          req[t].model # <<>> /\ res[t] = "denied"
              => invoked[t] = 0 /\ pc[t] # "executing"
    /\ last.req.model # <<>> /\ last.res = "denied"
          => last.err = "RateLimited" /\ last.status = 429 /\ last.invoked = 0

\* C7 witness: a request for claude/sonnet, denied by the RPM window, has
\* been answered 429.
C7_Witness ==
    /\ SonnetKey \in DOMAIN limiters
    /\ limiters[SonnetKey].rpm # None
    /\ last.req.model = <<"sonnet">>
    /\ last.res = "denied"
    /\ last.status = 429

\* C8: a request without a model whose try_acquire(provider, "_auto") is
\* denied is not refused: it goes on to the adapter holding no guard, and
\* no auto-model request is answered 429.
C8_AutoDenialTolerated ==
    /\ \A t \in Procs :
          req[t] # NoRequest /\ req[t].model = <<>> /\ res[t] = "denied"
                /\ pc[t] # "ta_ret"
              => pc[t] = "executing" /\ invoked[t] = 1 /\ guard[t] = "none"
                 /\ slot[t] = 0
    /\ last # NoResponse /\ last.req.model = <<>> => last.status # 429

\* C8 witness: an auto-model request is executing although its try_acquire
\* was denied, while the request that holds the only slot still executes.
C8_Witness ==
    \E t, u \in Procs :
        /\ pc[t] = "executing" /\ req[t].model = <<>> /\ res[t] = "denied"
        /\ pc[u] = "executing" /\ req[u].model = <<>> /\ res[u] = "ok"
        /\ key[t] = key[u]

EmptyConfiguration == DOMAIN model_settings = {} /\ DOMAIN provider_settings = {}

\* C10 (as stated): with an empty configuration every request is rejected
\* as unknown provider and no adapter is ever invoked.
C10_EmptyConfigRejectsAll ==
    EmptyConfiguration =>
        /\ \A t \in Procs : invoked[t] = 0
        /\ last # NoResponse => last.err = "ProviderNotFound"

\* C10 (amended): with an empty configuration, a request with a valid
\* schema is rejected as unknown provider when it names no adapter, and as
\* unknown model when it names claude, codex or gemini with a model (an
\* invalid schema is rejected first), all with 400 and no adapter invoked;
\* a request that names an adapter and omits the model is not rejected:
\* the adapter is invoked, with no admission asked and no guard.
C10_EmptyConfigRejectsConfigured ==
    EmptyConfiguration =>
        /\ \A t \in Procs :
              invoked[t] > 0 =>
                  /\ req[t].model = <<>>
                  /\ get_provider_with_executor(req[t].provider)
                  /\ res[t] = "none" /\ guard[t] = "none"
        /\ last # NoResponse /\ last.req # NoRequest /\ last.invoked = 0 =>
              /\ last.status = 400
              /\ last.err = (IF validate_structured_schema(last.req.schema) # "ok"
                             THEN "InvalidSchema"
                             ELSE IF ~get_provider_with_executor(last.req.provider)
                             THEN "ProviderNotFound"
                             ELSE "ModelNotFound")
        /\ last # NoResponse /\ last.invoked > 0 =>
              /\ last.req.model = <<>>
              /\ get_provider_with_executor(last.req.provider)

\* C10 witness: the server runs with no configuration and executes a
\* request for claude that names no model.
C10_Witness ==
    /\ EmptyConfiguration
    /\ \E t \in Procs : pc[t] = "executing" /\ req[t].provider = "claude"

\* the earliest check of generate that the answered request fails, read off
\* the request and the server's settings: "none" when it passes the four
\* checks that come before admission
FirstFailure(r) ==
    IF ~(r.schema.root = "object" /\ r.schema.type = "object"
         /\ r.schema.properties = "object" /\ r.schema.compiles)
    THEN "InvalidSchema"
    ELSE IF r.provider \notin {"codex", "claude", "gemini"}
    THEN "ProviderNotFound"
    ELSE IF r.model # <<>> /\ <<r.provider, r.model[1]>> \notin DOMAIN model_settings
    THEN "ModelNotFound"
    ELSE IF r.model = <<>> /\ r.provider \in DOMAIN provider_settings
            /\ ~provider_settings[r.provider].supports_auto_model
    THEN "AutoModelNotSupported"
    ELSE "none"

\* the order of the checks before admission: a rejected request carries
\* the error of the earliest check it fails, and was stopped there
ChecksInOrder ==
    last # NoResponse /\ last.req # NoRequest =>
        /\ FirstFailure(last.req) # "none" =>
              /\ last.err = FirstFailure(last.req)
              /\ last.status = 400
              /\ last.res = "none" /\ last.invoked = 0
        /\ FirstFailure(last.req) = "none" =>
              /\ last.err \in {"RateLimited", "ok", "ProviderExecution", "Timeout",
                               "OutputParse", "OutputValidation", "cancelled"}
              /\ last.err = "RateLimited" => last.res = "denied" /\ last.invoked = 0
              /\ last.err # "RateLimited" => last.invoked = 1
              /\ last.err = "OutputValidation" => last.status = 422

\* C11: generate checks in a fixed order (schema, provider, model or auto
\* flag, admission, execution, output validation) and stops at the first
\* failure: the answer carries the error of the earliest failed check, and
\* a request whose admission was denied goes no further.
C11_StopsAtFirstFailure ==
    /\ ChecksInOrder
    /\ \A t \in Procs : res[t] = "denied" => invoked[t] = 0 /\ pc[t] # "executing"

\* C12: every error kind has one HTTP status (400 for ProviderNotFound,
\* ModelNotFound, AutoModelNotSupported, InvalidSchema; 429 RateLimited;
\* 422 OutputValidation; 504 Timeout; 500 ProviderExecution, OutputParse)
\* and the body has a stderr member only for ProviderExecution, OutputParse
\* and OutputValidation.
C12_StatusAndStderrByKind ==
    last # NoResponse /\ last.err \notin {"ok", "cancelled"} =>
        /\ last.err \in {"ProviderNotFound", "ModelNotFound",
                         "AutoModelNotSupported", "InvalidSchema"}
              => last.status = 400 /\ ~last.stderr
        /\ last.err = "RateLimited" => last.status = 429 /\ ~last.stderr
        /\ last.err = "Timeout" => last.status = 504 /\ ~last.stderr
        /\ last.err = "OutputValidation" => last.status = 422 /\ last.stderr
        /\ last.err \in {"ProviderExecution", "OutputParse"}
              => last.status = 500 /\ last.stderr
        /\ last.status \in {400, 429, 422, 504, 500}

\* C12 witness: a request that timed out has been answered 504 with no
\* stderr member.
C12_Witness ==
    last.err = "Timeout" /\ last.status = 504 /\ ~last.stderr /\ last.invoked = 1

\* C13: every call of run returns by its deadline of timeout_secs (120
\* when absent), whatever the child does, and after a Timeout, an error
\* return or a cancellation the child is no longer running.
C13_RunReturnsByDeadline ==
    /\ xpc \in {"spawn", "write", "wait"}
          => xclock.now <= (IF xargs.timeout_secs = None THEN 120
                            ELSE xargs.timeout_secs)
    /\ (xpc = "cancelled" \/ (xpc = "returned" /\ xres.kind # "ok"))
          => child.state # "running"

\* C14: for each request the adapter's execute is invoked at most once,
\* whatever error the invocation ends with.
C14_ExecuteAtMostOnce ==
    /\ \A t \in Procs : invoked[t] <= 1
    /\ last.invoked <= 1
    /\ last.err \in {"ProviderExecution", "Timeout", "OutputParse",
                     "OutputValidation"} => last.invoked = 1

\* C14 witness: a request whose only invocation ended with a Timeout has
\* been answered and is over.
C14_Witness ==
    /\ last.err = "Timeout"
    /\ last.invoked = 1
    /\ \A t \in Procs : pc[t] = "idle" /\ invoked[t] = 0

C15_RegisterReplaces ==
    [][ /\ (limiters' # limiters => registered' # registered)
        /\ (registered' # registered =>
              LET k == registered'.key
                  st == registered'.settings
              IN /\ DOMAIN limiters' = DOMAIN limiters \cup {k}
                 /\ limiters'[k] = st
                 /\ current'[k] = 0
                 /\ timestamps'[k] = [rps |-> <<>>, rpm |-> <<>>]
                 /\ \A j \in DOMAIN limiters \ {k} :
                       /\ limiters'[j] = limiters[j]
                       /\ current'[j] = current[j]
                       /\ timestamps'[j] = timestamps[j]
                 /\ (/\ registered.key = k
                     /\ registered.settings = st
                     /\ k \in DOMAIN limiters
                     /\ current[k] = 0
                     /\ timestamps[k] = [rps |-> <<>>, rpm |-> <<>>])
                    => /\ limiters' = limiters
                       /\ current' = current
                       /\ timestamps' = timestamps) ]_vars

\* C15 witness: a key whose entry had a concurrency cap was registered
\* again with settings that have none; the entry insert returned is the one
\* that was replaced.
C15_Witness ==
    /\ registered.old # <<>>
    /\ registered.old[1] # registered.settings
    /\ registered.old[1].concurrent = MaxConcurrent
    /\ registered.settings.concurrent = None
    /\ limiters[registered.key] = registered.settings
    /\ current[registered.key] = 0

\* the call of t that has just returned met no sub-limit at capacity: the
\* counter without the slot of the call is under the cap, and each queue,
\* expired entries evicted and the entry of the call left out, is under its
\* cap
C17_Free(t) ==
    LET k == key[t]
        L == limiters[k]
        pushed(w) == L[w] # None
                       /\ (res[t] = "ok" \/ (w = "rps" /\ cause[t] = "rpm"))
        before(w) == Len(Evict(timestamps[k][w], clock - Window(w)))
                       - (IF pushed(w) THEN 1 ELSE 0)
    IN /\ (L.concurrent = None \/ current[k] - slot[t] < L.concurrent)
       /\ (L.rps = None \/ before("rps") < L.rps)
       /\ (L.rpm = None \/ before("rpm") < L.rpm)

\* the sub-limit the denial of t names is configured and at capacity
C17_AtCapacity(t) ==
    LET k == key[t]
        L == limiters[k]
    IN \/ /\ cause[t] = "concurrent"
          /\ L.concurrent # None
          /\ current[k] >= L.concurrent
       \/ \E w \in {"rps", "rpm"} :
            /\ cause[t] = w
            /\ L[w] # None
            /\ Len(Evict(timestamps[k][w], clock - Window(w))) >= L[w]

\* C17: when callers take turns, a try_acquire on a registered key returns
\* Ok exactly when the counter is under the concurrency cap and the evicted
\* RPS and RPM queues are under their caps (a sub-limit that is not
\* configured never denies), and a denial names a sub-limit at capacity.
C17_SequentialExact ==
    [][ \A t \in Procs :
          (pc[t] # "ta_ret" /\ pc'[t] = "ta_ret" /\ key'[t] \in DOMAIN limiters') =>
             /\ (res'[t] = "ok") <=> C17_Free(t)'
             /\ (res'[t] = "denied") => C17_AtCapacity(t)'
             /\ res'[t] \in {"ok", "denied"} ]_vars

\* C17 witness: with concurrent = 2, two callers hold their guards and the
\* third was denied by the concurrency cap.
C17_Witness ==
    \E t1, t2, t3 \in Procs :
        /\ t1 # t2 /\ t1 # t3 /\ t2 # t3
        /\ \A t \in {t1, t2, t3} : key[t] = TestKey /\ pc[t] = "ta_ret"
        /\ Registered(TestKey)
        /\ limiters[TestKey].concurrent = 2
        /\ res[t1] = "ok" /\ guard[t1] = "held"
        /\ res[t2] = "ok" /\ guard[t2] = "held"
        /\ res[t3] = "denied" /\ cause[t3] = "concurrent"
        /\ current[TestKey] = 2

\* C18: when the critical section of SlidingWindow::try_acquire ends, under
\* any interleaving of callers, the queue is non-decreasing and each of its
\* timestamps t satisfies now - window < t <= now for the now of the call.
C18_QueueSortedInWindow ==
    [][ \A t \in Procs : \A w \in {"rps", "rpm"} :
          (/\ pc[t] = (IF w = "rps" THEN "rps_lock" ELSE "rpm_lock")
           /\ pc'[t] # pc[t]) =>
             LET q == timestamps'[key[t]][w] IN
             /\ \A i \in 1..(Len(q) - 1) : q[i] <= q[i + 1]
             /\ \A i \in 1..Len(q) :
                   now[t] - Window(w) < q[i] /\ q[i] <= now[t] ]_vars

\* C19: the step that denies a call for the concurrency cap is the load of
\* the counter, taken before either window is reached: the call has read
\* and changed no queue, and the step changes neither the counter nor a
\* queue nor the slots of the call.
C19_ConcurrencyDenialTouchesNothing ==
    [][ \A t \in Procs :
          /\ (pc[t] \in {"conc_load", "conc_cas"} => touched[t] = {})
          /\ (cause[t] # "concurrent" /\ cause'[t] = "concurrent") =>
                /\ pc[t] = "conc_load"
                /\ pc'[t] = "ta_ret"
                /\ res'[t] = "denied"
                /\ guard'[t] = "none"
                /\ touched'[t] = {}
                /\ slot'[t] = 0
                /\ current' = current
                /\ timestamps' = timestamps ]_vars

\* C19 witness: a call was denied for the concurrency cap on a key that
\* has both windows configured, with timestamps in them.
C19_Witness ==
    \E t \in Procs :
        /\ Denied(t)
        /\ cause[t] = "concurrent"
        /\ limiters[key[t]].rps # None
        /\ limiters[key[t]].rpm # None
        /\ timestamps[key[t]].rps # <<>>
        /\ timestamps[key[t]].rpm # <<>>
        /\ current[key[t]] > 0

\* C20: a call that passed the concurrency check and is denied by a window
\* returns Denied with no guard and with its slot given back: the counter
\* goes down by exactly the one the call had raised it by, and stays as it
\* is when the key has no concurrency cap.
C20_RateDenialReleasesSlot ==
    [][ \A t \in Procs :
          (pc[t] = "rollback" /\ pc'[t] # "rollback") =>
             LET k == key[t] IN
             /\ cause[t] \in {"rps", "rpm"}
             /\ pc'[t] = "ta_ret"
             /\ res'[t] = "denied"
             /\ guard'[t] = "none"
             /\ slot'[t] = 0
             /\ IF limiters[k].concurrent # None
                THEN /\ slot[t] = 1
                     /\ current[k] >= 1
                     /\ current'[k] = current[k] - 1
                ELSE /\ slot[t] = 0
                     /\ current'[k] = current[k] ]_vars

\* C20 witness: a call denied by the RPS window has given its slot back
\* while another caller holds the only other slot in use.
C20_Witness ==
    \E t, u \in Procs :
        /\ Denied(t)
        /\ cause[t] = "rps"
        /\ limiters[key[t]].concurrent = 2
        /\ slot[t] = 0
        /\ u # t /\ key[u] = key[t] /\ slot[u] = 1
        /\ current[key[t]] = 1

\* how many times e occurs in the queue q
Count(q, e) == Cardinality({i \in DOMAIN q : q[i] = e})

\* C21: the RPM window is reached only from an RPS step that admitted (when
\* RPS is configured); an RPS denial leaves the RPM queue as it is and the
\* call goes to its rollback; an RPM denial and the rollback leave the RPS
\* queue as it is; and a timestamp leaves the RPS queue by no step but the
\* eviction of a timestamp older than the 1-second window.
C21_RpsThenRpm ==
    [][ /\ \A t \in Procs :
            LET k == key[t] IN
            /\ (pc[t] # "rpm_now" /\ pc'[t] = "rpm_now"
                   /\ limiters[key'[t]].rps # None) =>
                  /\ pc[t] = "rps_lock"
                  /\ k = key'[t]
                  /\ timestamps'[k].rps # <<>>
                  /\ timestamps'[k].rps[Len(timestamps'[k].rps)] = now[t]
            /\ (pc[t] = "rps_lock" /\ pc'[t] = "rollback") =>
                  /\ timestamps'[k].rpm = timestamps[k].rpm
                  /\ cause'[t] = "rps"
            /\ (pc[t] = "rpm_lock" /\ pc'[t] = "rollback") =>
                  /\ timestamps'[k].rps = timestamps[k].rps
                  /\ cause'[t] = "rpm"
            /\ (pc[t] = "rollback" /\ pc'[t] # "rollback") =>
                  /\ timestamps' = timestamps
                  /\ pc'[t] = "ta_ret"
        /\ \A k \in DOMAIN timestamps :
            \A i \in DOMAIN timestamps[k].rps :
                LET e == timestamps[k].rps[i] IN
                Count(timestamps'[k].rps, e) < Count(timestamps[k].rps, e)
                    => e < clock - RpsWindow ]_vars

\* C21 witness: a call denied by the RPM window has returned, and the
\* timestamp it left in the RPS queue, taken at this instant, is still the
\* last of the queue; the key has no concurrency cap.
C21_Witness ==
    \E t \in Procs :
        /\ Denied(t)
        /\ cause[t] = "rpm"
        /\ limiters[key[t]].concurrent = None
        /\ limiters[key[t]].rps # None
        /\ timestamps[key[t]].rps # <<>>
        /\ timestamps[key[t]].rps[Len(timestamps[key[t]].rps)] = clock
        /\ clock > 0

\* the oldest timestamp of a queue that is not empty
Oldest(q) == CHOOSE e \in {q[i] : i \in DOMAIN q} :
                \A i \in DOMAIN q : e <= q[i]

\* C22: a denied SlidingWindow::try_acquire appends no timestamp, and a
\* call whose now is more than the window length after the oldest
\* timestamp the queue retains is admitted (the cap being at least 1).
C22_DenialsDoNotExtendLockout ==
    [][ \A t \in Procs : \A w \in {"rps", "rpm"} :
          (/\ pc[t] = (IF w = "rps" THEN "rps_lock" ELSE "rpm_lock")
           /\ pc'[t] # pc[t]) =>
             LET q == timestamps[key[t]][w]
                 K == limiters[key[t]][w]
             IN /\ pc'[t] = "rollback" =>
                      \A i \in DOMAIN timestamps'[key[t]][w] :
                          Count(timestamps'[key[t]][w], timestamps'[key[t]][w][i])
                              <= Count(q, timestamps'[key[t]][w][i])
                /\ (K >= 1 /\ q # <<>> /\ now[t] - Oldest(q) > Window(w))
                      => pc'[t] # "rollback" ]_vars

\* C23: the drop of a guard leaves both timestamp queues of every entry,
\* and the record of the acquisitions of the running window, as they are;
\* it lowers the counter of its entry by one when the entry has a
\* concurrency cap and changes no other counter.
C23_DropKeepsWindows ==
    [][ \A t \in Procs :
          (pc[t] = "ta_ret" /\ res[t] = "ok" /\ pc'[t] = "idle") =>
             /\ timestamps' = timestamps
             /\ acquired' = acquired
             /\ \A k \in DOMAIN current :
                   current'[k] =
                     IF /\ k = key[t]
                        /\ guard[t] = "held"
                        /\ limiters[k].concurrent # None
                     THEN current[k] - 1
                     ELSE current[k] ]_vars

\* C23 witness: with rps = 2 and concurrent = 2, two requests were
\* admitted and released within the second, no guard is left, and the next
\* call is denied by the RPS window.
C23_Witness ==
    \E t \in Procs :
        /\ Denied(t)
        /\ cause[t] = "rps"
        /\ limiters[key[t]].concurrent = 2
        /\ limiters[key[t]].rps = 2
        /\ current[key[t]] = 0
        /\ Len(timestamps[key[t]].rps) = 2
        /\ \A u \in Procs \ {t} : pc[u] = "idle"

\* the calls that count in the counter of k: the live guards got from k and
\* the calls that are past the concurrency check and have not returned
Counted(k) ==
    {t \in Procs :
        /\ key[t] = k
        /\ \/ guard[t] = "held"
           \/ pc[t] \in {"rps_now", "rps_lock", "rpm_now", "rpm_lock",
                          "rollback"}}

\* C29: in every state the counter of an entry with a concurrency cap is
\* the number of live guards got from the entry plus the number of calls
\* past the concurrency check that have not returned yet (a call denied by
\* a window counts until its rollback), the counter of an entry without a
\* cap is 0, and so no counter ever wrapped around below zero.
C29_CounterCountsGuards ==
    \A k \in DOMAIN limiters :
        /\ current[k] = IF limiters[k].concurrent # None
                        THEN Cardinality(Counted(k))
                        ELSE 0
        /\ current[k] <= Cardinality(Procs)

\* C29 witness: the counter is 2 for one live guard and one call that is
\* between the concurrency check and its RPS window.
C29_Witness ==
    \E t, u \in Procs :
        /\ t # u
        /\ key[t] = key[u]
        /\ Registered(key[t])
        /\ pc[t] = "ta_ret" /\ guard[t] = "held"
        /\ pc[u] = "rps_lock"
        /\ current[key[t]] = 2

\* how far a call is: the positions in the order the code goes through them
Rank(p) ==
    CASE p = "conc_load" -> 1
      [] p = "conc_cas" -> 2
      [] p = "rps_now" -> 3
      [] p = "rps_lock" -> 4
      [] p = "rpm_now" -> 5
      [] p = "rpm_lock" -> 6
      [] p = "rollback" -> 7
      [] p = "ta_ret" -> 8
      [] OTHER -> 0

C24_Linearisable ==
    (lin.phase = "race" /\ \A t \in Racers : pc[t] = "ta_ret") =>
        \E o \in SequentialOutcomes(limiters[TestKey],
                                     [current |-> lin.current,
                                      rps |-> lin.timestamps.rps,
                                      rpm |-> lin.timestamps.rpm],
                                     clock, Racers) :
            /\ o.ok = {t \in Racers : res[t] = "ok"}
            /\ o.st.current = current[TestKey]
            /\ o.st.rps = timestamps[TestKey].rps
            /\ o.st.rpm = timestamps[TestKey].rpm

\* the text an adapter hands to the JSON parser: the stdout, and for gemini
\* the fenced block of the stdout when it has one
Handed(provider, stdout) ==
    IF provider = "gemini" /\ extract_json(stdout) # <<>>
    THEN extract_json(stdout)[1]
    ELSE stdout

\* C26 as stated: for the three adapters a stdout that does not parse as
\* JSON yields OutputParse carrying the stdout.
C26_UnparsableStdoutIsOutputParse ==
    (ad.pc = "returned" /\ ad.run.ok /\ ~from_str(ad.run.stdout).ok) =>
        ad.result = OutputParse(ad.run.stdout)

\* C26: for the three adapters an executor error is returned as it is and
\* nothing is parsed; when the text handed to the parser (the stdout, for
\* gemini the fenced block when there is one) does not parse, the result is
\* OutputParse carrying the whole stdout; and for claude a parsed value
\* without structured_output is OutputParse carrying the stdout.
C26_AdapterErrors ==
    ad.pc = "returned" =>
        /\ ~ad.run.ok =>
              /\ ad.result = [kind |-> ad.run.err, value |-> <<>>]
              /\ ad.parsed = <<>>
        /\ ad.run.ok =>
              /\ ad.parsed = <<Handed(ad.provider, ad.run.stdout)>>
              /\ ~from_str(Handed(ad.provider, ad.run.stdout)).ok =>
                    ad.result = OutputParse(ad.run.stdout)
              /\ (/\ ad.provider = "claude"
                  /\ from_str(ad.run.stdout).ok
                  /\ get_structured_output(from_str(ad.run.stdout).value) = <<>>)
                    => ad.result = OutputParse(ad.run.stdout)

\* C26 witness: gemini found a fenced block that does not parse and
\* returned OutputParse with the whole stdout, prose and fences included.
C26_Witness ==
    /\ ad.pc = "returned"
    /\ ad.provider = "gemini"
    /\ ad.run.ok
    /\ ad.parsed = <<<<"x">>>>
    /\ Len(ad.run.stdout) > 3
    /\ ad.result = OutputParse(ad.run.stdout)

\* C27: for every stdout that is exactly one JSON object the gemini adapter
\* hands the whole stdout to the parser and returns that object.
C27_ExtractionIdempotentOnObjects ==
    (/\ ad.pc = "returned"
     /\ ad.provider = "gemini"
     /\ ad.run.ok
     /\ ad.run.stdout \in JsonObjects(MaxDepth)) =>
        /\ ad.parsed = <<ad.run.stdout>>
        /\ ad.result = Ok(ad.run.stdout)

\* what the validator of schema.rs asks of a schema
WellFormed(schema) ==
    /\ schema.root = "object"
    /\ schema.type = "object"
    /\ schema.properties = "object"
    /\ schema.compiles

\* C28: a schema is accepted only if its root is an object, its "type" is
\* "object", its "properties" is an object and it compiles; a request with
\* any other schema is answered InvalidSchema with status 400, whatever its
\* provider and model, with no admission asked and no adapter invoked, and
\* no request with such a schema is ever past validation.
C28_SchemaGate ==
    /\ \A r \in GenerateRequests :
          validate_structured_schema(r.schema) = "ok" => WellFormed(r.schema)
    /\ \A t \in Procs :
          req[t] # NoRequest => validated[t] /\ WellFormed(req[t].schema)
    /\ (last # NoResponse /\ last.req # NoRequest /\ ~WellFormed(last.req.schema)) =>
          /\ last.err = "InvalidSchema"
          /\ last.status = 400
          /\ ~last.validated
          /\ last.res = "none"
          /\ last.invoked = 0
    /\ (last # NoResponse /\ last.req # NoRequest /\ WellFormed(last.req.schema)) =>
          last.validated /\ last.err # "InvalidSchema"

\* C28 witness: a request for claude/sonnet, a configured model, whose
\* schema has an array as "properties" was answered InvalidSchema, 400.
C28_Witness ==
    /\ last.err = "InvalidSchema"
    /\ last.status = 400
    /\ last.req.provider = "claude"
    /\ last.req.model = <<"sonnet">>
    /\ model_configured(<<"claude", "sonnet">>)
    /\ last.req.schema.type = "object"
    /\ last.req.schema.properties = "array"

\* the request fails one of the checks generate makes before admission
RejectedBeforeAdmission(r) ==
    generate_checks(r).go \in {"InvalidSchema", "ProviderNotFound",
                               "ModelNotFound", "AutoModelNotSupported"}

\* C30: a step that rejects a request before admission (InvalidSchema,
\* ProviderNotFound, ModelNotFound, AutoModelNotSupported, or a body the
\* extractor refuses) leaves every concurrency counter and every timestamp
\* queue as it was, hands out no guard, invokes no adapter, and answers 400.
C30_RejectionConsumesNothing ==
    [][ (\/ \E t \in Procs, r \in GenerateRequests :
               RejectedBeforeAdmission(r) /\ generate(t, r)
         \/ json_rejected)
        => /\ current' = current
           /\ timestamps' = timestamps
           /\ acquired' = acquired
           /\ guard' = guard
           /\ invoked' = invoked
           /\ last'.invoked = 0
           /\ last'.res = "none"
           /\ last'.status = 400 ]_vars

\* C30 witness: a request for an unconfigured model was answered
\* ModelNotFound while another request holds a slot of claude/sonnet and a
\* timestamp of it is in the RPS window.
C30_Witness ==
    /\ last.err = "ModelNotFound"
    /\ last.invoked = 0
    /\ <<"claude", "sonnet">> \in DOMAIN current
    /\ current[<<"claude", "sonnet">>] > 0
    /\ timestamps[<<"claude", "sonnet">>].rps # <<>>
    /\ \E t \in Procs : pc[t] = "executing"

AutoKey == <<"claude", "_auto">>

\* the entry of the key has changed: its counter or one of its queues
EntryChanged(k) == current'[k] # current[k] \/ timestamps'[k] # timestamps[k]

\* C31: a step of a call or a guard drop on one key leaves the counter and
\* both timestamp queues of every other key as they were, every change of
\* an entry is made by a caller of that entry's key, and a call is denied
\* only when its own entry is at its concurrency cap or has a full window,
\* whatever the state of the other entries.
C31_EntriesIndependent ==
    [][ /\ \A t \in Procs :
              pc'[t] # pc[t] =>
                  /\ \A k \in DOMAIN current : k # key[t] => ~EntryChanged(k)
                  /\ (pc'[t] = "ta_ret" /\ res'[t] = "denied"
                        /\ cause'[t] = "concurrent") =>
                        /\ limiters[key[t]].concurrent # None
                        /\ AtCapacity(current[key[t]], limiters[key[t]].concurrent)
                  /\ (pc'[t] = "rollback" /\ cause'[t] \in {"rps", "rpm"}) =>
                        /\ limiters[key[t]][cause'[t]] # None
                        /\ ~HasRoom(Evict(timestamps[key[t]][cause'[t]],
                                          now[t] - Window(cause'[t])),
                                    limiters[key[t]][cause'[t]])
        /\ \A k \in DOMAIN current :
              EntryChanged(k) => \E t \in Procs : key[t] = k /\ pc'[t] # pc[t]
      ]_vars

\* C31 witness: the "_auto" entry of claude is at its cap, its slot held
\* by an executing request with no model, and a second request with no
\* model was denied on it, while a request for claude/sonnet, admitted on
\* its own entry, is executing.
C31_Witness ==
    /\ AutoKey \in DOMAIN current /\ SonnetKey \in DOMAIN current
    /\ limiters[AutoKey].concurrent # None
    /\ current[AutoKey] = limiters[AutoKey].concurrent
    /\ current[SonnetKey] > 0
    /\ \E t, u \in Procs :
          /\ pc[t] = "executing" /\ key[t] = AutoKey /\ guard[t] = "held"
          /\ pc[u] = "executing" /\ key[u] = SonnetKey /\ res[u] = "ok"
          /\ guard[u] = "held"
    /\ \E v \in Procs : key[v] = AutoKey /\ res[v] = "denied"

====
